---- MODULE Spec2Model ----
(***************************************************************************)
(* Dartmouth Swimming Alumni Archive: the submission / upload              *)
(* orchestration workflow (StorageModule, DatabaseModule and the glue in   *)
(* the page script), modelled as a state machine.                           *)
(*                                                                         *)
(* One browser client runs on one event loop: an action of this module is  *)
(* one macrotask (a user event, or the arrival of a backend response       *)
(* together with every continuation that runs before the next await on a   *)
(* backend call).  The backend (identity provider, document store, blob    *)
(* store) is external: each of its calls succeeds or fails                 *)
(* nondeterministically.                                                   *)
(***************************************************************************)
EXTENDS Integers, Sequences, FiniteSets, TLC

VARIABLES
    currentUser,     \* firebase.auth().currentUser of this client
    uploadedFiles,   \* state.uploadedFiles, the pending attachment list
    up,              \* the StorageModule.uploadMultipleFiles call
    progress,        \* the last values handed to the onProgress callback
    sub,             \* the submitMemoryToFirebase call
    memories,        \* document store: the memories collection
    decades,         \* document store: decades/<label>.memoryCount
    notifications,   \* document store: number of notification records
    reactionDocs,    \* document store: memories/<id>/reactions documents
    calls,           \* the DatabaseModule.addReaction calls, by any client
    inviteEmails,    \* state.inviteEmails, the staged invite list
    inviteOp,        \* the last operation of the invite form and its argument
    invites,         \* document store: the invites collection
    sends,           \* the sendInvitesToFirebase calls, one per client
    currentView,     \* state.currentView
    currentDecade,   \* state.currentDecade
    memoryType,      \* state.memoryType
    active,          \* the elements whose class list holds 'active'
    decadeDisplay,   \* text of the .decade-display element
    timers,          \* pending setTimeout callbacks of switchDecade
    request,         \* a call of one operation of the three modules
    selection,       \* the last handleFileUpload call: its files and toasts
    authCurrentUser, \* AuthModule.currentUser, the page's copy of the session
    compression,     \* the StorageModule.uploadWithCompression call
    reads,           \* the FileReader loads in progress for the previews
    previews,        \* the children of elements.uploadedPreview
    comments,        \* document store: memories/<id>/comments documents
    commentCall      \* the DatabaseModule.addComment call

vars == <<currentUser, uploadedFiles, up, progress, sub, memories, decades,
          notifications, reactionDocs, calls, inviteEmails, inviteOp, invites,
          sends, currentView, currentDecade, memoryType, active, decadeDisplay,
          timers, request, selection, authCurrentUser, compression, reads, previews,
          comments, commentCall>>

\* The invite flow, the navigation state, and the single operation call.
inviteVars == <<inviteEmails, inviteOp, invites, sends>>
viewVars == <<currentView, currentDecade, memoryType, active, decadeDisplay, timers>>
\* The previews of the pending files are followed under SpecPreview.
previewVars == <<reads, previews>>
\* addComment is followed under SpecGuest.
commentVars == <<comments, commentCall>>
otherVars == <<request, selection, authCurrentUser, compression, previewVars, commentVars>>
siteVars == <<inviteVars, viewVars, otherVars>>

\* What the reaction toggle works on, and what it leaves alone.
reactVars == <<reactionDocs, calls>>
clientVars == <<currentUser, uploadedFiles, up, progress, sub, decades, notifications>>
workflowVars == <<reactVars, clientVars, memories>>

----------------------------------------------------------------------------
(* Bounds of the model *)

\* longest batch / pending list explored
MaxFiles == 2

\* number of addReaction calls explored in one behaviour
MaxCalls == 2

\* number of clients that send invites in one behaviour
MaxSends == 2

\* longest queue of pending switchDecade timeouts explored
MaxTimers == 2

\* largest number of FileReader loads in progress explored
MaxReads == 3

----------------------------------------------------------------------------
(* Values *)

NoUser == "null"
Users == {"u1"}

\* File sizes are counted in MB (2^20 bytes).  A media type "a/b" is the
\* pair <<"a", "b">>.
Files ==
    { [name |-> "a.jpg", size |-> 1,  type |-> <<"image", "jpeg">>],
      [name |-> "b.pdf", size |-> 3,  type |-> <<"application", "pdf">>],
      [name |-> "c.jpg", size |-> 12, type |-> <<"image", "jpeg">>],
      [name |-> "d.bmp", size |-> 10, type |-> <<"image", "bmp">>],
      [name |-> "e.pdf", size |-> 12, type |-> <<"application", "pdf">>] }

RECURSIVE SeqsUpTo(_, _)
SeqsUpTo(S, n) ==
    IF n = 0 THEN { <<>> }
    ELSE LET shorter == SeqsUpTo(S, n - 1)
         IN shorter \cup { Append(s, x) : s \in { t \in shorter : Len(t) = n - 1 }, x \in S }

Batches == SeqsUpTo(Files, MaxFiles)

\* Upload progress of one file, in percent, as the blob store reports it
\* (snapshot.bytesTransferred / snapshot.totalBytes * 100).
ProgressPoints == {0, 50, 100}

\* Messages of backend errors (error.message), never empty.
StorageError == "storage/unknown"

----------------------------------------------------------------------------
(* StorageModule.validateFile *)

maxSize == 10

allowedTypes ==
    { <<"image", "jpeg">>, <<"image", "png">>, <<"image", "gif">>,
      <<"image", "webp">>, <<"application", "pdf">> }

validateFile(file) ==
    IF file.size > maxSize
    THEN [valid |-> FALSE, error |-> "exceeds 10MB limit"]
    ELSE IF file.type \notin allowedTypes
    THEN [valid |-> FALSE, error |-> "type is not allowed"]
    ELSE [valid |-> TRUE, error |-> ""]

----------------------------------------------------------------------------
(* StorageModule.uploadFile: the part that runs before the blob-store put *)

\* Mutant: the file is put without being validated.
uploadFileStart_noValidation(file, user) ==
    IF user = NoUser
    THEN [ok |-> FALSE, error |-> "Must be signed in to upload files"]
    ELSE [ok |-> TRUE, error |-> ""]

\* Mutant: the file is put whoever is signed in.
uploadFileStart_noUserCheck(file, user) ==
    IF ~ validateFile(file).valid
    THEN [ok |-> FALSE, error |-> validateFile(file).error]
    ELSE [ok |-> TRUE, error |-> ""]

uploadFileStart(file, user) ==
    IF user = NoUser
    THEN [ok |-> FALSE, error |-> "Must be signed in to upload files"]
    ELSE IF ~ validateFile(file).valid
    THEN [ok |-> FALSE, error |-> validateFile(file).error]
    ELSE [ok |-> TRUE, error |-> ""]

\* The record uploadFile resolves with.  The storage path holds the memory
\* id and Date.now(); the clock is modelled by the position of the put in
\* the batch, which grows as Date.now() does.  The download URL is the
\* backend's name for that path.
uploadResult(file, memoryId, i) ==
    [url  |-> <<"url", memoryId, i>>,
     path |-> <<"memories", memoryId, i>>,
     name |-> file.name,
     size |-> file.size,
     type |-> file.type]

----------------------------------------------------------------------------
(* StorageModule.uploadMultipleFiles *)

IdleUpload ==
    [pc |-> "idle", fileArray |-> <<>>, memoryId |-> 0, onProgress |-> "none",
     i |-> 1, results |-> <<>>, completedBytes |-> 0, fileProgress |-> -1,
     attempts |-> <<>>, putCalls |-> <<>>]

RECURSIVE SumSizes(_)
SumSizes(fs) == IF fs = <<>> THEN 0 ELSE Head(fs).size + SumSizes(Tail(fs))

totalBytes(u) == SumSizes(u.fileArray)

\* Mutants of the catch block: the entry is not pushed; the loop is left.
catchUploadError_noEntry(u, message) ==
    [u EXCEPT !.i = @ + 1]

catchUploadError_abort(u, message) ==
    [u EXCEPT !.results = Append(@, [error |-> message,
                                      name  |-> u.fileArray[u.i].name]),
              !.i = Len(u.fileArray) + 1]

\* The catch block of the loop: an error entry, and on to the next file.
catchUploadError(u, message) ==
    [u EXCEPT !.results = Append(@, [error |-> message,
                                      name  |-> u.fileArray[u.i].name]),
              !.i = @ + 1]

\* A file's upload resolved: its bytes are complete, its record is pushed.
pushUploadResult(u) ==
    [u EXCEPT !.completedBytes = @ + u.fileArray[u.i].size,
              !.results = Append(@, uploadResult(u.fileArray[u.i], u.memoryId, u.i)),
              !.i = @ + 1]

\* The for loop, run until the next await on the blob store or the return.
\* uploadFile's throws before the put reject at once, so the catch block and
\* the next iteration follow without any other event in between.
RECURSIVE uploadLoop(_, _)
uploadLoop(u, user) ==
    IF u.i > Len(u.fileArray)
    THEN [u EXCEPT !.pc = "done"]
    ELSE LET file == u.fileArray[u.i]
             start == uploadFileStart(file, user)
             tried == [u EXCEPT !.attempts = Append(@, u.i)]
         IN IF start.ok
            THEN [tried EXCEPT !.pc = "put", !.fileProgress = -1,
                               !.putCalls = Append(@, u.i)]
            ELSE uploadLoop(catchUploadError(tried, start.error), user)

uploadMultipleFiles(files, memoryId, onProgress, user) ==
    uploadLoop([IdleUpload EXCEPT !.fileArray = files, !.memoryId = memoryId,
                                  !.onProgress = onProgress], user)

\* The value the progress callback of line 90 hands to onProgress, as the
\* exact fraction overallProgress = overall / totalBytes percent.
overallProgress(u, fileProgress) ==
    [overall |-> 100 * u.completedBytes + fileProgress * u.fileArray[u.i].size,
     current |-> u.i,
     total   |-> Len(u.fileArray)]

\* The callback of lines 90-96.  onProgress is "observer" for a caller that
\* looks at the values: progress keeps the two most recent ones.  The
\* callback submitMemoryToFirebase passes (lines 1266-1268) shows a toast
\* and keeps nothing.
Report(u, log, fileProgress) ==
    IF u.onProgress # "observer" THEN log
    ELSE LET r == overallProgress(u, fileProgress)
         IN IF Len(log) < 2 THEN Append(log, r) ELSE <<log[2], r>>

----------------------------------------------------------------------------
(* DatabaseModule.addMemory and its two side effects *)

Decades == {"1990s", "2000s"}

\* The document addMemory inserts (lines 17-30); title and story are left
\* out, images is the empty list submitMemoryToFirebase passes.
newMemory(decade, user) ==
    [decade |-> decade,
     images |-> <<>>,
     authorId |-> user,
     reactions |-> [swim |-> 0, heart |-> 0, celebrate |-> 0],
     commentCount |-> 0]

\* Mutant: the increment lands on every decade document.
incrementDecadeCount_everyDecade(counts, decade) ==
    [d \in DOMAIN counts |-> counts[d] + 1]

\* decades/<decade>: set({memoryCount: increment(1)}, {merge: true}); a
\* missing document counts as 0.
incrementDecadeCount(counts, decade) ==
    [counts EXCEPT ![decade] = @ + 1]

----------------------------------------------------------------------------
(* submitMemoryToFirebase *)

\* pc: where the call is suspended; insert, increment, notify: how the
\* backend answered that write ("none" before it was issued or answered);
\* error: the step whose error the call threw; pending: the length of
\* state.uploadedFiles read at line 1262 (-1 before); patches: number of
\* update calls issued; pre: the counters when the call was made; atInsert:
\* the pending list as it stood when the insert resolved, kept while
\* addMemory is awaited.
IdleSubmit ==
    [pc |-> "idle", decade |-> "", author |-> NoUser, memoryId |-> 0,
     imageUrls |-> <<>>, pending |-> -1, patches |-> 0,
     insert |-> "none", increment |-> "none", notify |-> "none",
     error |-> "none", atInsert |-> <<>>,
     pre |-> [decades |-> [d \in Decades |-> 0], notifications |-> 0, memories |-> 0]]

\* Mutant: the URLs are collected last first.
RECURSIVE succeededUrls_reversed(_)
succeededUrls_reversed(results) ==
    IF results = <<>> THEN <<>>
    ELSE IF "error" \in DOMAIN Head(results)
         THEN succeededUrls_reversed(Tail(results))
         ELSE succeededUrls_reversed(Tail(results)) \o <<Head(results).url>>

\* Lines 1272-1274: the URLs of the entries without an error, in order.
RECURSIVE succeededUrls(_)
succeededUrls(results) ==
    IF results = <<>> THEN <<>>
    ELSE IF "error" \in DOMAIN Head(results)
         THEN succeededUrls(Tail(results))
         ELSE <<Head(results).url>> \o succeededUrls(Tail(results))

\* Lines 1271-1283: what follows the await on uploadMultipleFiles.
afterUploads(s, u) ==
    IF s.pc # "uploading" \/ u.pc # "done" THEN s
    ELSE LET imageUrls == succeededUrls(u.results)
         IN IF Len(imageUrls) > 0
            THEN [s EXCEPT !.pc = "patching", !.imageUrls = imageUrls,
                           !.patches = @ + 1]
            ELSE [s EXCEPT !.pc = "done"]

\* Mutant: phase 2 is entered whatever the list holds.
hasPendingFiles_always(files) == Len(files) >= 0

\* Line 1262: phase 2 is entered when files are pending.
hasPendingFiles(files) == Len(files) > 0

\* The catch blocks of addMemory and submitMemoryToFirebase: log, re-throw.
rethrow(s, step) == [s EXCEPT !.pc = "failed", !.error = step]

\* Mutant: the side effect's catch block re-throws.
logAndContinue_rethrow(s, step, next) == [s EXCEPT !.pc = "failed", !.error = step]

\* The catch block inside incrementDecadeCount and notifySubscribers: log
\* and go on.
logAndContinue(s, step, next) == [s EXCEPT !.pc = next]

----------------------------------------------------------------------------
(* The invite form: addInviteEmail, removeInviteEmail, isValidEmail *)

\* A string is the sequence of its characters.  The values typed into the
\* address field:
\*   "", "  ", "not-an-email", "a@b.c", " a@b.c ", "A@b.c", "b@c.d",
\*   "a@b", "a b@c.d", "@b.c", "a@b.", "a@.c", "a@@b.c"
EmailInputs ==
    { <<>>,
      <<" ", " ">>,
      <<"n", "o", "t", "-", "a", "n", "-", "e", "m", "a", "i", "l">>,
      <<"a", "@", "b", ".", "c">>,
      <<" ", "a", "@", "b", ".", "c", " ">>,
      <<"A", "@", "b", ".", "c">>,
      <<"b", "@", "c", ".", "d">>,
      <<"a", "@", "b">>,
      <<"a", " ", "b", "@", "c", ".", "d">>,
      <<"@", "b", ".", "c">>,
      <<"a", "@", "b", ".">>,
      <<"a", "@", ".", "c">>,
      <<"a", "@", "@", "b", ".", "c">> }

\* The optional shared message of the invite form.
Messages == {"", "Join us"}

\* \s of the regular expression, and what trim() strips.
Whitespace == {" ", "\t", "\n"}

\* String.prototype.trim
RECURSIVE trimStart(_)
trimStart(str) ==
    IF str # <<>> /\ Head(str) \in Whitespace THEN trimStart(Tail(str)) ELSE str

RECURSIVE trimEnd(_)
trimEnd(str) ==
    IF str # <<>> /\ str[Len(str)] \in Whitespace
    THEN trimEnd(SubSeq(str, 1, Len(str) - 1))
    ELSE str

trim(str) == trimEnd(trimStart(str))

\* String.prototype.toLowerCase, on the letters used here.
toLowerCase(str) ==
    [k \in DOMAIN str |-> IF str[k] = "A" THEN "a" ELSE str[k]]

\* Mutant: the pattern does not ask for the dot and what follows it.
isValidEmail_noDot(email) ==
    \E at \in 1..Len(email) :
       /\ email[at] = "@"
       /\ 1 < at /\ at < Len(email)
       /\ \A k \in (1..Len(email)) \ {at} : email[k] \notin Whitespace \cup {"@"}

\* /^[^\s@]+@[^\s@]+\.[^\s@]+$/.test(email): the match splits the string at
\* an "@" and at a later "." into three non-empty runs of characters that
\* are neither whitespace nor "@" (the runs may hold further dots).
isValidEmail(email) ==
    \E at \in 1..Len(email), dot \in 1..Len(email) :
       /\ email[at] = "@" /\ email[dot] = "."
       /\ 1 < at /\ at + 1 < dot /\ dot < Len(email)
       /\ \A k \in (1..Len(email)) \ {at} : email[k] \notin Whitespace \cup {"@"}

\* Array.prototype.includes
includes(list, x) == \E k \in 1..Len(list) : list[k] = x

\* addInviteEmail, as the new value of state.inviteEmails for the value of
\* the address field.
addInviteEmail(list, value) ==
    LET email == trim(value)
    IN IF email = <<>> THEN list
       ELSE IF ~ isValidEmail(email) THEN list
       ELSE IF includes(list, email) THEN list
       ELSE Append(list, email)

\* Mutant: the entry is removed by position, splice(indexOf(email), 1);
\* indexOf is -1 for an address that is not staged, and splice(-1, 1) takes
\* the last entry.
removeInviteEmail_splice(list, email) ==
    IF list = <<>> THEN list
    ELSE LET index == IF includes(list, email)
                      THEN CHOOSE k \in 1..Len(list) :
                              list[k] = email /\ \A j \in 1..(k - 1) : list[j] # email
                      ELSE Len(list)
         IN SubSeq(list, 1, index - 1) \o SubSeq(list, index + 1, Len(list))

\* removeInviteEmail: state.inviteEmails.filter(e => e !== email)
removeInviteEmail(list, email) ==
    LET keep(e) == e # email
    IN SelectSeq(list, keep)

\* What the form can stage: the addresses among the typed values that pass
\* addInviteEmail, and the lists of them without repetition.
ValidAddresses == { trim(v) : v \in { w \in EmailInputs : addInviteEmail(<<>>, w) # <<>> } }

StagedLists ==
    { l \in SeqsUpTo(ValidAddresses, Cardinality(ValidAddresses)) :
         \A a, b \in 1..Len(l) : a # b => l[a] # l[b] }

\* The last operation of the form: its name, its argument, and the staged
\* list it found.
NoInviteOp == [op |-> "none", arg |-> <<>>, before |-> <<>>]

----------------------------------------------------------------------------
(* DatabaseModule.sendInvite and sendInvitesToFirebase *)

\* pc: the backend call the current sendInvite awaits; i: the position in
\* emails of the current sendInvite; invite: the record it built; error:
\* what the call threw; attempts: the positions sendInvite was called for.
IdleSend ==
    [pc |-> "idle", emails |-> <<>>, message |-> "", i |-> 1,
     invite |-> [email |-> <<>>, invitedBy |-> NoUser, personalMessage |-> "",
                 status |-> "pending"],
     error |-> "none", attempts |-> <<>>]

\* Lines 263-270: the record sendInvite builds.
newInvite(email, personalMessage, user) ==
    [email |-> toLowerCase(email),
     invitedBy |-> user,
     personalMessage |-> personalMessage,
     status |-> "pending"]

\* The for loop of sendInvitesToFirebase at position s.i, up to the next
\* await: past the end it returns true; otherwise sendInvite is called,
\* which throws without a user and else issues the existence query.
sendInviteStart(s, user) ==
    IF s.i > Len(s.emails)
    THEN [s EXCEPT !.pc = "done"]
    ELSE LET tried == [s EXCEPT !.attempts = Append(@, s.i)]
         IN IF user = NoUser
            THEN [tried EXCEPT !.pc = "failed", !.error = "Must be signed in to send invites"]
            ELSE [tried EXCEPT !.pc = "query",
                               !.invite = newInvite(s.emails[s.i], s.message, user)]

sendInvitesToFirebase(emails, message, user) ==
    sendInviteStart([IdleSend EXCEPT !.emails = emails, !.message = message], user)

\* Mutant: the existence query never finds a record.
alreadyInvited_never(store, invite) == FALSE

\* Lines 273-280: the query where('email', '==', email.toLowerCase()) is
\* not empty.
alreadyInvited(store, invite) ==
    \E k \in 1..Len(store) : store[k].email = invite.email

----------------------------------------------------------------------------
(* Navigation: switchView, switchDecade, switchMemoryType *)

\* The top-level views of the page; 'timeline' is the one state starts with.
Views == {"timeline", "contribute", "invite"}

\* The keys of decadeData.
DecadeLabels ==
    {"1950s", "1960s", "1970s", "1980s", "1990s", "2000s", "2010s", "2020s"}

MemoryTypes == {"photo", "video", "story"}

\* The elements the three functions walk over: one .nav-btn per view (its
\* data-view), one .view per view (its id is "<view>-view"), one
\* .decade-marker per label (its data-decade), one .type-btn per type.
NavBtns == { [class |-> "nav-btn", data |-> v] : v \in Views }
ViewElements == { [class |-> "view", data |-> v] : v \in Views }
DecadeMarkers == { [class |-> "decade-marker", data |-> d] : d \in DecadeLabels }
TypeBtns == { [class |-> "type-btn", data |-> t] : t \in MemoryTypes }

\* Mutant: the matching element gets the class, no element loses it.
toggleActive_addOnly(act, elems, key) ==
    act \cup { e \in elems : e.data = key }

\* elems.forEach(e => e.classList.toggle('active', e.<data> === key))
toggleActive(act, elems, key) ==
    (act \ elems) \cup { e \in elems : e.data = key }

\* The page as loaded: state as declared, and the elements of the declared
\* view, decade and type marked active.
ViewInitial ==
    /\ currentView = "timeline"
    /\ currentDecade = "1990s"
    /\ memoryType = "photo"
    /\ active = { e \in NavBtns \cup ViewElements : e.data = "timeline" }
                   \cup { e \in DecadeMarkers : e.data = "1990s" }
                   \cup { e \in TypeBtns : e.data = "photo" }
    /\ decadeDisplay = "1990s"
    /\ timers = <<>>

----------------------------------------------------------------------------
(* The catch blocks of the operations of AuthModule, DatabaseModule and    *)
(* StorageModule that await the backend.                                   *)

\* awaits: the backend calls the operation awaits inside its try block, on
\*         its longest path;
\* noUser: what it does when no user is signed in ("throw", "return", or
\*         "none" when it does not look);
\* catch:  what its catch block does with a backend error: "rethrow",
\*         "default" (return a default value), "log" (log and return).
Operations ==
    { [name |-> "register",        awaits |-> 3, noUser |-> "none",   catch |-> "rethrow"],
      [name |-> "login",           awaits |-> 1, noUser |-> "none",   catch |-> "rethrow"],
      [name |-> "logout",          awaits |-> 1, noUser |-> "none",   catch |-> "rethrow"],
      [name |-> "resetPassword",   awaits |-> 1, noUser |-> "none",   catch |-> "rethrow"],
      [name |-> "loadUserProfile", awaits |-> 1, noUser |-> "none",   catch |-> "default"],
      [name |-> "updateNotificationPreferences",
                                   awaits |-> 1, noUser |-> "return", catch |-> "rethrow"],
      [name |-> "addMemory",       awaits |-> 1, noUser |-> "throw",  catch |-> "rethrow"],
      [name |-> "getMemoriesByDecade",
                                   awaits |-> 1, noUser |-> "none",   catch |-> "rethrow"],
      [name |-> "getMemory",       awaits |-> 1, noUser |-> "none",   catch |-> "rethrow"],
      [name |-> "addReaction",     awaits |-> 4, noUser |-> "return", catch |-> "rethrow"],
      [name |-> "addComment",      awaits |-> 2, noUser |-> "throw",  catch |-> "rethrow"],
      [name |-> "getComments",     awaits |-> 1, noUser |-> "none",   catch |-> "rethrow"],
      [name |-> "getDecadeStats",  awaits |-> 1, noUser |-> "none",   catch |-> "default"],
      [name |-> "incrementDecadeCount",
                                   awaits |-> 1, noUser |-> "none",   catch |-> "log"],
      [name |-> "sendInvite",      awaits |-> 2, noUser |-> "throw",  catch |-> "rethrow"],
      [name |-> "getMyInvites",    awaits |-> 1, noUser |-> "return", catch |-> "default"],
      [name |-> "getRecentJoins",  awaits |-> 1, noUser |-> "none",   catch |-> "default"],
      [name |-> "getCommunityStats",
                                   awaits |-> 3, noUser |-> "none",   catch |-> "default"],
      [name |-> "notifySubscribers",
                                   awaits |-> 1, noUser |-> "none",   catch |-> "log"],
      [name |-> "searchMemories",  awaits |-> 1, noUser |-> "none",   catch |-> "default"],
      [name |-> "uploadFile",      awaits |-> 2, noUser |-> "throw",  catch |-> "rethrow"],
      [name |-> "deleteFile",      awaits |-> 1, noUser |-> "none",   catch |-> "rethrow"] }

\* pc: "idle", "awaiting" (the step-th backend call), "returned", "threw";
\* op: the operation called; rejected: a backend call of this operation was
\* rejected; session: firebase.auth().currentUser when it was called.
NoOperation == [name |-> "none", awaits |-> 0, noUser |-> "none", catch |-> "rethrow"]

IdleRequest ==
    [pc |-> "idle", op |-> NoOperation, step |-> 0, rejected |-> FALSE,
     session |-> NoUser]

\* Mutant: every catch block re-throws.
catchBlock_alwaysRethrow(op) == "threw"

\* The state the operation's catch block leaves the call in.
catchBlock(op) ==
    IF op.catch = "rethrow" THEN "threw" ELSE "returned"

----------------------------------------------------------------------------
(* handleFileUpload *)

\* The last call of handleFileUpload: the files it was given, the pending
\* list before and after it, and what it showed for each file (the title of
\* the toast, or "accepted").
NoSelection == [files |-> <<>>, before |-> <<>>, after |-> <<>>, shown |-> <<>>]

\* Mutant: the size test is missing.
handleFile_noSizeTest(sel, file) ==
    IF file.type[1] # "image"
    THEN [sel EXCEPT !.shown = Append(@, "Invalid File")]
    ELSE [sel EXCEPT !.after = Append(@, file), !.shown = Append(@, "accepted")]

\* The body of the forEach, lines 719-729: the type is tested first, then
\* the size, then the file is pushed.
handleFile(sel, file) ==
    IF file.type[1] # "image"
    THEN [sel EXCEPT !.shown = Append(@, "Invalid File")]
    ELSE IF file.size > maxSize
    THEN [sel EXCEPT !.shown = Append(@, "File Too Large")]
    ELSE [sel EXCEPT !.after = Append(@, file), !.shown = Append(@, "accepted")]

RECURSIVE handleFiles(_, _)
handleFiles(sel, files) ==
    IF files = <<>> THEN sel
    ELSE handleFiles(handleFile(sel, Head(files)), Tail(files))

\* handleFileUpload(files) on the pending list.
handleFileUpload(list, files) ==
    handleFiles([files |-> files, before |-> list, after |-> list, shown |-> <<>>], files)

----------------------------------------------------------------------------
(* The previews of the pending files *)

\* A FileReader load in progress: the file read, the function whose onload
\* callback will run, and for renderUploadedPreviews the index its callback
\* closes over (handleFileUpload's callback reads the length of the pending
\* list when it runs).
newRead(file, by, index) == [file |-> file, by |-> by, index |-> index]

\* The reads handleFileUpload starts: one per file it pushed, in order.
readsOfSelection(sel) ==
    [k \in 1..(Len(sel.after) - Len(sel.before)) |->
        newRead(sel.after[Len(sel.before) + k], "handleFileUpload", 0)]

\* The reads renderUploadedPreviews starts: one per pending file, with its
\* index.
readsOfRender(list) ==
    [k \in 1..Len(list) |-> newRead(list[k], "renderUploadedPreviews", k - 1)]

\* The data-index the onload callback writes: lines 737 and 759.
dataIndex(read, list) ==
    IF read.by = "renderUploadedPreviews" THEN read.index
    ELSE Len(list) - 1

\* Array.prototype.splice(index, 1), index counted from 0: a negative index
\* counts from the end, an index past the end removes nothing.
splice(list, index) ==
    LET start == IF index < 0 THEN (IF Len(list) + index < 0 THEN 0 ELSE Len(list) + index)
                 ELSE index
    IN IF start >= Len(list) THEN list
       ELSE SubSeq(list, 1, start) \o SubSeq(list, start + 2, Len(list))

\* The sequence without its k-th element.
without(seq, k) == SubSeq(seq, 1, k - 1) \o SubSeq(seq, k + 1, Len(seq))

----------------------------------------------------------------------------
(* StorageModule.uploadWithCompression and compressImage *)

\* Line 238: 2 * 1024 * 1024 bytes, in MB.
compressThreshold == 2

\* The files handed to uploadWithCompression: those above, an image of
\* exactly 2 MB and one of 5 MB.
CompressionFiles ==
    Files \cup { [name |-> "f.png", size |-> 2, type |-> <<"image", "png">>],
                 [name |-> "g.jpg", size |-> 5, type |-> <<"image", "jpeg">>] }

\* The sizes canvas.toBlob can produce, in MB.
BlobSizes == {1, 11}

NoFile == [name |-> "", size |-> 0, type |-> <<"", "">>]

\* pc: "idle", "compressing", "put", "url", "done", "failed"; file: the
\* argument; fileToUpload: the local of line 235; compressed: how
\* compressImage settled ("none" when it was not called, "blob", "null" for
\* a toBlob without result, "error" for img.onerror); uploadArg: the file
\* uploadFile was called with; putFile: the file put into the blob store;
\* error: the message of the error thrown; result: the record resolved.
IdleCompression ==
    [pc |-> "idle", file |-> NoFile, fileToUpload |-> NoFile, compressed |-> "none",
     uploadArg |-> NoFile, putFile |-> NoFile, error |-> "none", result |-> <<>>]

\* Line 238: the test that sends a file through compressImage.
needsCompression(file) ==
    file.type[1] = "image" /\ file.size > compressThreshold

\* Lines 205-220: what compressImage resolves with once the image has
\* loaded: a JPEG file of the same name made from the blob, or the file
\* itself when toBlob hands over null.
compressImage(file, outcome, blobSize) ==
    IF outcome = "blob"
    THEN [name |-> file.name, size |-> blobSize, type |-> <<"image", "jpeg">>]
    ELSE file

\* Line 247: uploadFile(fileToUpload, memoryId, onProgress) up to its put.
startUploadFile(c, user) ==
    LET start == uploadFileStart(c.fileToUpload, user)
        called == [c EXCEPT !.uploadArg = c.fileToUpload]
    IN IF start.ok
       THEN [called EXCEPT !.pc = "put", !.putFile = c.fileToUpload]
       ELSE [called EXCEPT !.pc = "failed", !.error = start.error]

\* Mutant: the catch block of lines 242-244 throws the error on.
catchCompressionError_rethrow(c, user) ==
    [c EXCEPT !.compressed = "error", !.pc = "failed",
              !.error = "Failed to load image for compression"]

\* Lines 242-247: compressImage rejected; the warning is logged,
\* fileToUpload still holds the argument, and uploadFile is called.
catchCompressionError(c, user) ==
    startUploadFile([c EXCEPT !.compressed = "error"], user)

----------------------------------------------------------------------------
(* DatabaseModule.addComment *)

\* pc: "idle", "add" (the comment's add is awaited), "update" (the
\* increment of commentCount is awaited), "done", "failed"; comment: the
\* record built at lines 158-164; error: the message of the error thrown.
IdleComment ==
    [pc |-> "idle", comment |-> [memoryId |-> 0, authorId |-> NoUser], error |-> "none"]

\* Mutant: addComment does not look for the signed-in user.
addCommentStart_noUserCheck(memoryId, user) ==
    [IdleComment EXCEPT !.pc = "add",
                        !.comment = [memoryId |-> memoryId, authorId |-> user]]

\* Lines 151-170: addComment up to its first await.
addCommentStart(memoryId, user) ==
    IF user = NoUser
    THEN [IdleComment EXCEPT !.pc = "failed", !.error = "Must be signed in to comment"]
    ELSE [IdleComment EXCEPT !.pc = "add",
                             !.comment = [memoryId |-> memoryId, authorId |-> user]]

----------------------------------------------------------------------------
(* The state of the page and of the store outside the two-phase submission *)

SiteIdle ==
    /\ inviteEmails = <<>>
    /\ inviteOp = NoInviteOp
    /\ invites = <<>>
    /\ sends = [k \in 1..MaxSends |-> IdleSend]
    /\ ViewInitial
    /\ request = IdleRequest
    /\ selection = NoSelection
    /\ authCurrentUser = NoUser
    /\ compression = IdleCompression
    /\ reads = <<>>
    /\ previews = <<>>
    /\ comments = <<>>
    /\ commentCall = IdleComment

----------------------------------------------------------------------------
(* DatabaseModule.addReaction *)

ReactionTypes == {"swim", "heart", "celebrate"}

\* Signed-in users of the clients that react (each client has its own
\* session).
Reactors == {"u1", "u2"}

NoReaction == "none"

\* pc: the backend call the addReaction call awaits; existing: the type
\* read by reactionRef.get(); ret: the returned value; pre: the record's
\* counters and the join records when the call was made; alone: no other
\* call was in progress on the record at any time of this call.
IdleCall ==
    [pc |-> "idle", user |-> NoUser, memoryId |-> 0, type |-> NoReaction,
     existing |-> NoReaction, ret |-> "none",
     pre |-> [reactions |-> <<>>, docs |-> {}], alone |-> TRUE]

\* Mutant: one join document per user and reaction type.
reactionDocId_perType(user, reactionType) == <<user, reactionType>>

\* Lines 106-110: the join document is memories/<id>/reactions/<uid>.
reactionDocId(user, reactionType) == <<user>>

\* The document store: a collection holds at most one document per id.
docGet(docs, memoryId, id) ==
    LET found == { d \in docs : d.memoryId = memoryId /\ d.id = id }
    IN IF found = {} THEN NoReaction ELSE (CHOOSE d \in found : TRUE).type

docDelete(docs, memoryId, id) ==
    { d \in docs : ~ (d.memoryId = memoryId /\ d.id = id) }

docSet(docs, memoryId, id, data) ==
    docDelete(docs, memoryId, id)
       \cup { [memoryId |-> memoryId, id |-> id, type |-> data.type, userId |-> data.userId] }

\* The join records a user holds on a record.
ReactionsOf(docs, memoryId, user) ==
    { d \in docs : d.memoryId = memoryId /\ d.userId = user }

\* update({reactions.<type>: increment(n)})
incrementReaction(mems, memoryId, reactionType, n) ==
    [mems EXCEPT ![memoryId].reactions[reactionType] = @ + n]

\* Mutant: the toggle-off branch is missing.
afterGet_noToggleOff(existing, reactionType) ==
    IF existing # NoReaction THEN "decOld" ELSE "set"

\* Mutant: a change of type does not take the old reaction back.
afterGet_keepOld(existing, reactionType) ==
    IF existing = reactionType THEN "delete" ELSE "set"

\* Lines 115-131: the branch taken on the join record that was read, as the
\* backend call issued next.
afterGet(existing, reactionType) ==
    IF existing # NoReaction /\ existing = reactionType THEN "delete"
    ELSE IF existing # NoReaction THEN "decOld"
    ELSE "set"

InProgress(c) == calls[c].pc \notin {"idle", "done", "failed"}

\* The call, up to its first await.  Calls are numbered in the order they
\* are made.
ReactionCall(c) ==
    /\ calls[c].pc = "idle"
    /\ \A b \in 1..(c - 1) : calls[b].pc # "idle"
    /\ \E user \in Reactors \cup {NoUser}, memoryId \in 1..Len(memories),
          reactionType \in ReactionTypes :
          LET others == { b \in 1..MaxCalls : InProgress(b) /\ calls[b].memoryId = memoryId }
              call == [IdleCall EXCEPT
                          !.user = user, !.memoryId = memoryId, !.type = reactionType,
                          !.pre = [reactions |-> memories[memoryId].reactions,
                                   docs |-> reactionDocs],
                          !.alone = (others = {})]
          IN calls' = [b \in 1..MaxCalls |->
                          IF b = c
                          THEN IF user = NoUser
                               THEN [call EXCEPT !.pc = "done", !.ret = "undefined"]
                               ELSE [call EXCEPT !.pc = "get"]
                          ELSE IF b \in others /\ user # NoUser
                               THEN [calls[b] EXCEPT !.alone = FALSE]
                               ELSE calls[b]]
    /\ UNCHANGED <<siteVars, clientVars, memories, reactionDocs>>

\* reactionRef.get() resolves; the branch issues its first write.
GetResolved(c) ==
    /\ calls[c].pc = "get"
    /\ LET existing == docGet(reactionDocs, calls[c].memoryId,
                              reactionDocId(calls[c].user, calls[c].type))
       IN calls' = [calls EXCEPT ![c].existing = existing,
                                 ![c].pc = afterGet(existing, calls[c].type)]
    /\ UNCHANGED <<siteVars, clientVars, memories, reactionDocs>>

\* Toggle-off: reactionRef.delete() resolves; the decrement is issued.
DeleteResolved(c) ==
    /\ calls[c].pc = "delete"
    /\ reactionDocs' = docDelete(reactionDocs, calls[c].memoryId,
                                 reactionDocId(calls[c].user, calls[c].type))
    /\ calls' = [calls EXCEPT ![c].pc = "dec"]
    /\ UNCHANGED <<siteVars, clientVars, memories>>

\* Toggle-off: the decrement resolves; addReaction returns false.
DecrementResolved(c) ==
    /\ calls[c].pc = "dec"
    /\ memories' = incrementReaction(memories, calls[c].memoryId, calls[c].type, -1)
    /\ calls' = [calls EXCEPT ![c].pc = "done", ![c].ret = "false"]
    /\ UNCHANGED <<siteVars, clientVars, reactionDocs>>

\* Switch: the decrement of the old type resolves; the set is issued.
DecrementOldResolved(c) ==
    /\ calls[c].pc = "decOld"
    /\ memories' = incrementReaction(memories, calls[c].memoryId, calls[c].existing, -1)
    /\ calls' = [calls EXCEPT ![c].pc = "set"]
    /\ UNCHANGED <<siteVars, clientVars, reactionDocs>>

\* reactionRef.set() resolves; the increment is issued.
SetResolved(c) ==
    /\ calls[c].pc = "set"
    /\ reactionDocs' = docSet(reactionDocs, calls[c].memoryId,
                              reactionDocId(calls[c].user, calls[c].type),
                              [type |-> calls[c].type, userId |-> calls[c].user])
    /\ calls' = [calls EXCEPT ![c].pc = "inc"]
    /\ UNCHANGED <<siteVars, clientVars, memories>>

\* The increment resolves; addReaction returns true.
ReactionIncrementResolved(c) ==
    /\ calls[c].pc = "inc"
    /\ memories' = incrementReaction(memories, calls[c].memoryId, calls[c].type, 1)
    /\ calls' = [calls EXCEPT ![c].pc = "done", ![c].ret = "true"]
    /\ UNCHANGED <<siteVars, clientVars, reactionDocs>>

\* The awaited backend call rejects: the catch block re-throws.
ReactionRejected(c) ==
    /\ InProgress(c)
    /\ calls' = [calls EXCEPT ![c].pc = "failed"]
    /\ UNCHANGED <<siteVars, clientVars, memories, reactionDocs>>

----------------------------------------------------------------------------
(* Specification of the reaction toggle: one record, as addMemory creates  *)
(* it or with a swim reaction of its author already on it, and addReaction *)
(* calls from any client, interleaved at their awaits.                     *)

InitReact ==
    /\ SiteIdle
    /\ currentUser = NoUser
    /\ uploadedFiles = <<>>
    /\ up = IdleUpload
    /\ progress = <<>>
    /\ sub = IdleSubmit
    /\ decades = [d \in Decades |-> IF d = "1990s" THEN 1 ELSE 0]
    /\ notifications = 1
    /\ calls = [c \in 1..MaxCalls |-> IdleCall]
    /\ \/ /\ memories = <<newMemory("1990s", "u1")>>
          /\ reactionDocs = {}
       \/ /\ memories = <<incrementReaction(<<newMemory("1990s", "u1")>>, 1, "swim", 1)[1]>>
          /\ reactionDocs = docSet({}, 1, reactionDocId("u1", "swim"),
                                  [type |-> "swim", userId |-> "u1"])

NextReact ==
    \E c \in 1..MaxCalls :
       \/ ReactionCall(c)
       \/ GetResolved(c)
       \/ DeleteResolved(c)
       \/ DecrementResolved(c)
       \/ DecrementOldResolved(c)
       \/ SetResolved(c)
       \/ ReactionIncrementResolved(c)
       \/ ReactionRejected(c)

SpecReact == InitReact /\ [][NextReact]_vars

----------------------------------------------------------------------------
(* Actions of the upload orchestrator *)

\* uploadMultipleFiles called on its own, with any batch.  One call is
\* followed per behaviour.
UploadCall ==
    /\ sub.pc = "idle"
    /\ up.pc = "idle"
    /\ \E files \in Batches :
          up' = uploadMultipleFiles(files, 1, "observer", currentUser)
    /\ progress' = <<>>
    /\ UNCHANGED <<siteVars, reactVars, currentUser, uploadedFiles, sub, memories, decades, notifications>>

\* A state_changed snapshot of the running put.
PutProgress ==
    /\ up.pc = "put"
    /\ \E p \in ProgressPoints :
          /\ p > up.fileProgress
          /\ up' = [up EXCEPT !.fileProgress = p]
          /\ progress' = Report(up, progress, p)
    /\ UNCHANGED <<siteVars, reactVars, currentUser, uploadedFiles, sub, memories, decades, notifications>>

\* The put fails: reject(error), caught by the loop.
PutError ==
    /\ up.pc = "put"
    /\ up' = uploadLoop(catchUploadError(up, StorageError), currentUser)
    /\ sub' = afterUploads(sub, up')
    /\ UNCHANGED <<siteVars, reactVars, currentUser, uploadedFiles, progress, memories, decades, notifications>>

\* The put succeeds: the last snapshot (all bytes) is observed, then the
\* completion observer asks for the download URL.
PutComplete ==
    /\ up.pc = "put"
    /\ up' = [up EXCEPT !.pc = "url", !.fileProgress = 100]
    /\ progress' = Report(up, progress, 100)
    /\ UNCHANGED <<siteVars, reactVars, currentUser, uploadedFiles, sub, memories, decades, notifications>>

\* getDownloadURL resolves: uploadFile resolves with the record.
UrlResolved ==
    /\ up.pc = "url"
    /\ up' = uploadLoop(pushUploadResult(up), currentUser)
    /\ sub' = afterUploads(sub, up')
    /\ UNCHANGED <<siteVars, reactVars, currentUser, uploadedFiles, progress, memories, decades, notifications>>

\* getDownloadURL rejects: uploadFile rejects, caught by the loop.
UrlRejected ==
    /\ up.pc = "url"
    /\ up' = uploadLoop(catchUploadError(up, StorageError), currentUser)
    /\ sub' = afterUploads(sub, up')
    /\ UNCHANGED <<siteVars, reactVars, currentUser, uploadedFiles, progress, memories, decades, notifications>>

----------------------------------------------------------------------------
(* The session *)

\* AuthModule.login: signInWithEmailAndPassword resolves.
SignIn ==
    /\ currentUser = NoUser
    /\ currentUser' \in Users
    /\ UNCHANGED <<siteVars, reactVars, uploadedFiles, up, progress, sub, memories, decades, notifications>>

\* AuthModule.logout: signOut resolves.
SignOut ==
    /\ currentUser # NoUser
    /\ currentUser' = NoUser
    /\ UNCHANGED <<siteVars, reactVars, uploadedFiles, up, progress, sub, memories, decades, notifications>>

----------------------------------------------------------------------------
(* Specification of the upload orchestrator called directly *)

InitUpload ==
    /\ SiteIdle
    /\ currentUser \in Users \cup {NoUser}
    /\ uploadedFiles = <<>>
    /\ up = IdleUpload
    /\ progress = <<>>
    /\ sub = IdleSubmit
    /\ memories = <<>>
    /\ decades = [d \in Decades |-> 0]
    /\ notifications = 0
    /\ reactionDocs = {}
    /\ calls = [c \in 1..MaxCalls |-> IdleCall]

NextUpload ==
    \/ UploadCall
    \/ PutProgress
    \/ PutError
    \/ PutComplete
    \/ UrlResolved
    \/ UrlRejected
    \/ SignIn
    \/ SignOut

SpecUpload == InitUpload /\ [][NextUpload]_vars

----------------------------------------------------------------------------
(* The pending attachment list *)

\* handleFileUpload, for one selected file: a file whose type starts with
\* "image/" and whose size is at most 10 MB is appended.
acceptsFile(file) ==
    /\ file.type[1] = "image"
    /\ ~ (file.size > maxSize)

HandleFileUpload ==
    /\ \E file \in Files :
          uploadedFiles' = IF acceptsFile(file) /\ Len(uploadedFiles) < MaxFiles
                           THEN Append(uploadedFiles, file)
                           ELSE uploadedFiles
    /\ uploadedFiles' # uploadedFiles
    /\ UNCHANGED <<siteVars, reactVars, currentUser, up, progress, sub, memories, decades, notifications>>

\* removeUploadedFile(index): splice(index, 1), index counted from 0.
RemoveUploadedFile ==
    /\ \E index \in 0..(Len(uploadedFiles) - 1) :
          uploadedFiles' = [k \in 1..(Len(uploadedFiles) - 1) |->
                               IF k <= index THEN uploadedFiles[k] ELSE uploadedFiles[k + 1]]
    /\ UNCHANGED <<siteVars, reactVars, currentUser, up, progress, sub, memories, decades, notifications>>

\* handleContributeSubmit with the required fields filled in: it shows the
\* toast and resets the form and the pending list.  It calls nothing of the
\* backend.
HandleContributeSubmit ==
    /\ uploadedFiles # <<>>
    /\ uploadedFiles' = <<>>
    /\ UNCHANGED <<siteVars, reactVars, currentUser, up, progress, sub, memories, decades, notifications>>

----------------------------------------------------------------------------
(* Actions of submitMemoryToFirebase *)

\* The call, up to the first await: addMemory reads the session and either
\* throws or issues the insert (DatabaseModule and StorageModule are
\* loaded: the demo-mode return of line 1251 is not taken).  One call is
\* followed per behaviour.
SubmitCall ==
    /\ sub.pc = "idle"
    /\ \E decade \in Decades :
          LET s == [IdleSubmit EXCEPT
                       !.decade = decade, !.author = currentUser,
                       !.pre = [decades |-> decades,
                                notifications |-> notifications,
                                memories |-> Len(memories)]]
          IN sub' = IF currentUser = NoUser
                    THEN [rethrow(s, "auth") EXCEPT !.insert = "nouser"]
                    ELSE [s EXCEPT !.pc = "inserting"]
    /\ UNCHANGED <<siteVars, reactVars, currentUser, uploadedFiles, up, progress, memories, decades, notifications>>

\* collection('memories').add resolves; incrementDecadeCount issues its set.
\* The author is the user read when addMemory was called.
InsertResolved ==
    /\ sub.pc = "inserting"
    /\ memories' = Append(memories, newMemory(sub.decade, sub.author))
    /\ sub' = [sub EXCEPT !.pc = "incrementing", !.insert = "ok",
                          !.memoryId = Len(memories) + 1,
                          !.atInsert = uploadedFiles]
    /\ UNCHANGED <<siteVars, reactVars, currentUser, uploadedFiles, up, progress, decades, notifications>>

\* Mutant: the rejected insert is logged and addMemory goes on.
InsertRejected_swallowed ==
    /\ sub.pc = "inserting"
    /\ sub' = [sub EXCEPT !.pc = "incrementing", !.insert = "rejected"]
    /\ UNCHANGED <<siteVars, reactVars, currentUser, uploadedFiles, up, progress, memories, decades, notifications>>

\* collection('memories').add rejects: addMemory and the caller re-throw.
InsertRejected ==
    /\ sub.pc = "inserting"
    /\ sub' = [rethrow(sub, "insert") EXCEPT !.insert = "rejected"]
    /\ UNCHANGED <<siteVars, reactVars, currentUser, uploadedFiles, up, progress, memories, decades, notifications>>

\* The decade counter's set resolves; notifySubscribers issues its add.
IncrementResolved ==
    /\ sub.pc = "incrementing"
    /\ decades' = incrementDecadeCount(decades, sub.decade)
    /\ sub' = [sub EXCEPT !.pc = "notifying", !.increment = "ok"]
    /\ UNCHANGED <<siteVars, reactVars, currentUser, uploadedFiles, up, progress, memories, notifications>>

\* The decade counter's set rejects: logged inside incrementDecadeCount.
IncrementRejected ==
    /\ sub.pc = "incrementing"
    /\ sub' = [logAndContinue(sub, "increment", "notifying") EXCEPT !.increment = "rejected"]
    /\ UNCHANGED <<siteVars, reactVars, currentUser, uploadedFiles, up, progress, memories, decades, notifications>>

\* Mutant: the batch is the list as it stood when the insert resolved.
enterPhase2_atInsert(s, files, user) ==
    IF hasPendingFiles(s.atInsert)
    THEN LET u == uploadMultipleFiles(s.atInsert, s.memoryId, "toast", user)
         IN <<afterUploads([s EXCEPT !.pc = "uploading", !.pending = Len(s.atInsert),
                                     !.atInsert = <<>>], u), u>>
    ELSE <<[s EXCEPT !.pc = "done", !.pending = Len(s.atInsert), !.atInsert = <<>>],
           IdleUpload>>

\* addMemory returns docRef.id and submitMemoryToFirebase goes on to line
\* 1262: with files pending it calls uploadMultipleFiles, which copies the
\* list and runs to its first put; without, it returns the id.
enterPhase2(s, files, user) ==
    IF hasPendingFiles(files)
    THEN LET u == uploadMultipleFiles(files, s.memoryId, "toast", user)
         IN <<afterUploads([s EXCEPT !.pc = "uploading", !.pending = Len(files),
                                     !.atInsert = <<>>], u), u>>
    ELSE <<[s EXCEPT !.pc = "done", !.pending = Len(files), !.atInsert = <<>>], IdleUpload>>

\* collection('notifications').add resolves.
NotifyResolved ==
    /\ sub.pc = "notifying"
    /\ notifications' = notifications + 1
    /\ LET next == enterPhase2([sub EXCEPT !.notify = "ok"], uploadedFiles, currentUser)
       IN sub' = next[1] /\ up' = next[2]
    /\ UNCHANGED <<siteVars, reactVars, currentUser, uploadedFiles, progress, memories, decades>>

\* collection('notifications').add rejects: logged inside notifySubscribers.
NotifyRejected ==
    /\ sub.pc = "notifying"
    /\ LET s == [logAndContinue(sub, "notify", "notifying") EXCEPT !.notify = "rejected"]
           next == IF s.pc = "failed" THEN <<s, up>>
                   ELSE enterPhase2(s, uploadedFiles, currentUser)
       IN sub' = next[1] /\ up' = next[2]
    /\ UNCHANGED <<siteVars, reactVars, currentUser, uploadedFiles, progress, memories, decades, notifications>>

\* The update of line 1277 resolves: the record's images are replaced.
PatchResolved ==
    /\ sub.pc = "patching"
    /\ memories' = [memories EXCEPT ![sub.memoryId].images = sub.imageUrls]
    /\ sub' = [sub EXCEPT !.pc = "done"]
    /\ UNCHANGED <<siteVars, reactVars, currentUser, uploadedFiles, up, progress, decades, notifications>>

\* The update rejects: submitMemoryToFirebase re-throws.
PatchRejected ==
    /\ sub.pc = "patching"
    /\ sub' = rethrow(sub, "patch")
    /\ UNCHANGED <<siteVars, reactVars, currentUser, uploadedFiles, up, progress, memories, decades, notifications>>

----------------------------------------------------------------------------
(* Specification of the two-phase submission.  The store is empty, or     *)
(* holds one memory submitted earlier without attachments.                 *)

InitSubmit ==
    /\ SiteIdle
    /\ currentUser \in Users \cup {NoUser}
    /\ uploadedFiles = <<>>
    /\ up = IdleUpload
    /\ progress = <<>>
    /\ sub = IdleSubmit
    /\ reactionDocs = {}
    /\ calls = [c \in 1..MaxCalls |-> IdleCall]
    /\ \/ /\ memories = <<>>
          /\ decades = [d \in Decades |-> 0]
          /\ notifications = 0
       \/ \E author \in Users :
             /\ memories = <<newMemory("1990s", author)>>
             /\ decades = [d \in Decades |-> IF d = "1990s" THEN 1 ELSE 0]
             /\ notifications = 1

NextSubmit ==
    \/ HandleFileUpload
    \/ RemoveUploadedFile
    \/ HandleContributeSubmit
    \/ SubmitCall
    \/ InsertResolved
    \/ InsertRejected
    \/ IncrementResolved
    \/ IncrementRejected
    \/ NotifyResolved
    \/ NotifyRejected
    \/ PatchResolved
    \/ PatchRejected
    \/ PutProgress
    \/ PutError
    \/ PutComplete
    \/ UrlResolved
    \/ UrlRejected
    \/ SignIn
    \/ SignOut

SpecSubmit == InitSubmit /\ [][NextSubmit]_vars

----------------------------------------------------------------------------
(* Specification of the file selection: one handleFileUpload call with a   *)
(* list of files is followed, before or during a submission.               *)

\* A drop on the upload zone or a change of the file input, with any list of
\* files.
SelectFiles ==
    /\ selection = NoSelection
    /\ \E files \in Batches \ { <<>> } :
          LET sel == handleFileUpload(uploadedFiles, files)
          IN /\ selection' = sel
             /\ uploadedFiles' = sel.after
    /\ UNCHANGED <<inviteVars, viewVars, request, authCurrentUser, compression, previewVars, commentVars, reactVars, currentUser, up, progress,
                   sub, memories, decades, notifications>>

InitSelect == InitSubmit

NextSelect ==
    \/ SelectFiles
    \/ RemoveUploadedFile
    \/ HandleContributeSubmit
    \/ SubmitCall
    \/ InsertResolved
    \/ InsertRejected
    \/ IncrementResolved
    \/ IncrementRejected
    \/ NotifyResolved
    \/ NotifyRejected
    \/ PatchResolved
    \/ PatchRejected
    \/ PutProgress
    \/ PutError
    \/ PutComplete
    \/ UrlResolved
    \/ UrlRejected
    \/ SignIn
    \/ SignOut

SpecSelect == InitSelect /\ [][NextSelect]_vars

----------------------------------------------------------------------------
(* Specification of the previews: handleFileUpload calls, the loads of the *)
(* readers in any order, and clicks on the remove buttons.                 *)

\* handleFileUpload(files): the accepted files are pushed and a reader is
\* started for each.
SelectForPreview ==
    /\ \E files \in Batches \ { <<>> } :
          LET sel == handleFileUpload(uploadedFiles, files)
          IN /\ sel.after # uploadedFiles
             /\ Len(sel.after) <= MaxFiles
             /\ Len(reads) + Len(readsOfSelection(sel)) <= MaxReads
             /\ uploadedFiles' = sel.after
             /\ reads' = reads \o readsOfSelection(sel)
    /\ UNCHANGED <<inviteVars, viewVars, request, selection, authCurrentUser, compression, commentVars,
                   previews, reactVars, currentUser, up, progress, sub, memories, decades,
                   notifications>>

\* A reader has loaded its file: its onload callback appends the preview
\* with the remove button.  The readers load in any order.
ReadLoaded ==
    /\ \E k \in 1..Len(reads) :
          /\ previews' = Append(previews,
                                [file |-> reads[k].file, by |-> reads[k].by,
                                 index |-> dataIndex(reads[k], uploadedFiles)])
          /\ reads' = without(reads, k)
    /\ UNCHANGED <<inviteVars, viewVars, request, selection, authCurrentUser, compression, commentVars,
                   workflowVars>>

\* A click on the remove button of a preview:
\* removeUploadedFile(parseInt(dataset.index)), which splices the pending
\* list and renders the previews again.
PreviewRemoveClicked ==
    /\ \E k \in 1..Len(previews) :
          LET list == splice(uploadedFiles, previews[k].index)
          IN /\ Len(reads) + Len(list) <= MaxReads
             /\ uploadedFiles' = list
             /\ previews' = <<>>
             /\ reads' = reads \o readsOfRender(list)
    /\ UNCHANGED <<inviteVars, viewVars, request, selection, authCurrentUser, compression, commentVars,
                   reactVars, currentUser, up, progress, sub, memories, decades,
                   notifications>>

InitPreview == InitSubmit

NextPreview ==
    \/ SelectForPreview
    \/ ReadLoaded
    \/ PreviewRemoveClicked

SpecPreview == InitPreview /\ [][NextPreview]_vars

----------------------------------------------------------------------------
(* Actions of the invite form *)

\* A click on the add button (or Enter) with value in the address field.
AddInviteEmail ==
    /\ \E value \in EmailInputs :
          /\ inviteEmails' = addInviteEmail(inviteEmails, value)
          /\ inviteOp' = [op |-> "add", arg |-> value, before |-> inviteEmails]
    /\ UNCHANGED <<workflowVars, invites, sends, viewVars, otherVars>>

\* removeInviteEmail(email)
RemoveInviteEmail ==
    /\ \E email \in ValidAddresses :
          /\ inviteEmails' = removeInviteEmail(inviteEmails, email)
          /\ inviteOp' = [op |-> "remove", arg |-> email, before |-> inviteEmails]
    /\ UNCHANGED <<workflowVars, invites, sends, viewVars, otherVars>>

\* handleInviteSubmit: with an empty list it returns; otherwise it shows
\* the toast and resets the list and the message field.  It calls nothing
\* of the backend.
HandleInviteSubmit ==
    /\ inviteEmails' = <<>>
    /\ inviteOp' = [op |-> "submit", arg |-> <<>>, before |-> inviteEmails]
    /\ UNCHANGED <<workflowVars, invites, sends, viewVars, otherVars>>

----------------------------------------------------------------------------
(* Actions of sendInvitesToFirebase and DatabaseModule.sendInvite *)

\* The session of client k: client 1 is the page modelled here, the other
\* clients stay signed in.
sessionOf(k) == IF k = 1 THEN currentUser ELSE "u2"

\* What client k sends.  Client 1 calls sendInvitesToFirebase with the
\* staged list of its form and the message field; every other client
\* invites one address, sendInvite(email) with the default message (a batch
\* of one).
batchesOf(k) ==
    IF k = 1 THEN { [emails |-> inviteEmails, message |-> m] : m \in Messages }
    ELSE { [emails |-> <<a>>, message |-> ""] : a \in ValidAddresses }

\* The call, up to its first await.
SendInvitesCall(k) ==
    /\ sends[k].pc = "idle"
    /\ \E batch \in batchesOf(k) :
          sends' = [sends EXCEPT ![k] =
                       sendInvitesToFirebase(batch.emails, batch.message, sessionOf(k))]
    /\ UNCHANGED <<workflowVars, inviteEmails, inviteOp, invites, viewVars, otherVars>>

\* The existence query resolves: a record found throws, none issues the add.
InviteQueryResolved(k) ==
    /\ sends[k].pc = "query"
    /\ sends' = [sends EXCEPT ![k] =
                    IF alreadyInvited(invites, sends[k].invite)
                    THEN [@ EXCEPT !.pc = "failed",
                                   !.error = "This email has already been invited"]
                    ELSE [@ EXCEPT !.pc = "add"]]
    /\ UNCHANGED <<workflowVars, inviteEmails, inviteOp, invites, viewVars, otherVars>>

\* The existence query rejects: sendInvite and the caller re-throw.
InviteQueryRejected(k) ==
    /\ sends[k].pc = "query"
    /\ sends' = [sends EXCEPT ![k].pc = "failed", ![k].error = "backend"]
    /\ UNCHANGED <<workflowVars, inviteEmails, inviteOp, invites, viewVars, otherVars>>

\* collection('invites').add resolves: sendInvite returns true and the loop
\* goes on to the next address.
InviteAddResolved(k) ==
    /\ sends[k].pc = "add"
    /\ invites' = Append(invites, sends[k].invite)
    /\ sends' = [sends EXCEPT ![k] = sendInviteStart([@ EXCEPT !.i = @ + 1], sessionOf(k))]
    /\ UNCHANGED <<workflowVars, inviteEmails, inviteOp, viewVars, otherVars>>

\* collection('invites').add rejects: sendInvite and the caller re-throw.
InviteAddRejected(k) ==
    /\ sends[k].pc = "add"
    /\ sends' = [sends EXCEPT ![k].pc = "failed", ![k].error = "backend"]
    /\ UNCHANGED <<workflowVars, inviteEmails, inviteOp, invites, viewVars, otherVars>>

----------------------------------------------------------------------------
(* Specification of the invite form: the staged list and the batch the   *)
(* page sends.                                                             *)

InitInviteForm ==
    /\ currentUser \in Users \cup {NoUser}
    /\ uploadedFiles = <<>>
    /\ up = IdleUpload
    /\ progress = <<>>
    /\ sub = IdleSubmit
    /\ memories = <<>>
    /\ decades = [d \in Decades |-> 0]
    /\ notifications = 0
    /\ reactionDocs = {}
    /\ calls = [c \in 1..MaxCalls |-> IdleCall]
    /\ SiteIdle

NextInviteForm ==
    \/ AddInviteEmail
    \/ RemoveInviteEmail
    \/ HandleInviteSubmit
    \/ SendInvitesCall(1)
    \/ InviteQueryResolved(1)
    \/ InviteQueryRejected(1)
    \/ InviteAddResolved(1)
    \/ InviteAddRejected(1)

SpecInviteForm == InitInviteForm /\ [][NextInviteForm]_vars

----------------------------------------------------------------------------
(* Specification of the invites collection: the clients send, interleaved  *)
(* at their awaits; the form of client 1 holds any list it can stage.      *)

InitInvite ==
    /\ currentUser \in Users \cup {NoUser}
    /\ uploadedFiles = <<>>
    /\ up = IdleUpload
    /\ progress = <<>>
    /\ sub = IdleSubmit
    /\ memories = <<>>
    /\ decades = [d \in Decades |-> 0]
    /\ notifications = 0
    /\ reactionDocs = {}
    /\ calls = [c \in 1..MaxCalls |-> IdleCall]
    /\ inviteEmails \in StagedLists
    /\ inviteOp = NoInviteOp
    /\ invites = <<>>
    /\ sends = [k \in 1..MaxSends |-> IdleSend]
    /\ ViewInitial
    /\ request = IdleRequest
    /\ selection = NoSelection
    /\ authCurrentUser = NoUser
    /\ compression = IdleCompression
    /\ reads = <<>>
    /\ previews = <<>>
    /\ comments = <<>>
    /\ commentCall = IdleComment

NextInvite ==
    \/ SignIn
    \/ SignOut
    \/ \E k \in 1..MaxSends :
          \/ SendInvitesCall(k)
          \/ InviteQueryResolved(k)
          \/ InviteQueryRejected(k)
          \/ InviteAddResolved(k)
          \/ InviteAddRejected(k)

SpecInvite == InitInvite /\ [][NextInvite]_vars

----------------------------------------------------------------------------
(* Actions of the navigation *)

\* A click on a nav button: switchView(btn.dataset.view).
SwitchView ==
    /\ \E viewName \in { btn.data : btn \in NavBtns } :
          /\ currentView' = viewName
          /\ active' = toggleActive(toggleActive(active, NavBtns, viewName),
                                    ViewElements, viewName)
    /\ UNCHANGED <<workflowVars, inviteVars, otherVars, currentDecade, memoryType,
                   decadeDisplay, timers>>

\* A click on a decade marker: switchDecade(marker.dataset.decade).  The
\* display text is replaced by a timeout callback 200 ms later.
SwitchDecade ==
    /\ Len(timers) < MaxTimers
    /\ \E decade \in { marker.data : marker \in DecadeMarkers } :
          /\ currentDecade' = decade
          /\ active' = toggleActive(active, DecadeMarkers, decade)
          /\ timers' = Append(timers, decade)
    /\ UNCHANGED <<workflowVars, inviteVars, otherVars, currentView, memoryType,
                   decadeDisplay>>

\* The oldest pending timeout fires: decadeDisplay.textContent = decade.
DecadeTimerFires ==
    /\ timers # <<>>
    /\ decadeDisplay' = Head(timers)
    /\ timers' = Tail(timers)
    /\ UNCHANGED <<workflowVars, inviteVars, otherVars, currentView, currentDecade,
                   memoryType, active>>

\* A click on a type button: switchMemoryType(btn.dataset.type).  The
\* upload section is shown unless the type is 'story'.
SwitchMemoryType ==
    /\ \E type \in { btn.data : btn \in TypeBtns } :
          /\ memoryType' = type
          /\ active' = toggleActive(active, TypeBtns, type)
    /\ UNCHANGED <<workflowVars, inviteVars, otherVars, currentView, currentDecade,
                   decadeDisplay, timers>>

----------------------------------------------------------------------------
(* Specification of the navigation *)

InitView ==
    /\ currentUser \in Users \cup {NoUser}
    /\ uploadedFiles = <<>>
    /\ up = IdleUpload
    /\ progress = <<>>
    /\ sub = IdleSubmit
    /\ memories = <<>>
    /\ decades = [d \in Decades |-> 0]
    /\ notifications = 0
    /\ reactionDocs = {}
    /\ calls = [c \in 1..MaxCalls |-> IdleCall]
    /\ SiteIdle

NextView ==
    \/ SwitchView
    \/ SwitchDecade
    \/ DecadeTimerFires
    \/ SwitchMemoryType

SpecView == InitView /\ [][NextView]_vars

----------------------------------------------------------------------------
(* Actions of a single operation call *)

\* The user an operation finds signed in: updateNotificationPreferences
\* reads AuthModule.currentUser, the other operations that look read
\* firebase.auth().currentUser.
userSeenBy(op, user, mirrored) ==
    IF op.name = "updateNotificationPreferences" THEN mirrored ELSE user

\* The operation is called and runs to its first await: it looks for the
\* signed-in user if it does, and issues its first backend call.
OperationCall ==
    /\ request.pc \in {"idle", "returned", "threw"}
    /\ \E op \in Operations :
          request' =
             IF op.noUser # "none" /\ userSeenBy(op, currentUser, authCurrentUser) = NoUser
             THEN [pc |-> (IF op.noUser = "throw" THEN "threw" ELSE "returned"),
                   op |-> op, step |-> 0, rejected |-> FALSE, session |-> currentUser]
             ELSE [pc |-> "awaiting", op |-> op, step |-> 1, rejected |-> FALSE,
                   session |-> currentUser]
    /\ UNCHANGED <<workflowVars, inviteVars, viewVars, selection, authCurrentUser, compression, previewVars, commentVars>>

\* The account AuthModule.register creates.
NewAccount == "u2"

\* Mutant: the password-reset mail ends the session.
sessionAfter_resetSignsOut(op, step, user) ==
    IF op.name = "register" /\ step = 1 THEN NewAccount
    ELSE IF op.name = "login" /\ step = 1 THEN "u1"
    ELSE IF op.name \in {"logout", "resetPassword"} THEN NoUser
    ELSE user

\* The session after the step-th backend call of op has resolved.  The
\* identity provider signs the user in when signInWithEmailAndPassword
\* resolves (login), signs the new account in when
\* createUserWithEmailAndPassword resolves (the first await of register:
\* userCredential.user is the signed-in user whose profile the next two
\* awaits write), and ends the session when signOut resolves (logout).
sessionAfter(op, step, user) ==
    IF op.name = "register" /\ step = 1 THEN NewAccount
    ELSE IF op.name = "login" /\ step = 1 THEN "u1"
    ELSE IF op.name = "logout" THEN NoUser
    ELSE user

\* The awaited backend call resolves: the next one is issued, or the
\* operation returns.
BackendResolved ==
    /\ request.pc = "awaiting"
    /\ request' = IF request.step < request.op.awaits
                  THEN [request EXCEPT !.step = @ + 1]
                  ELSE [request EXCEPT !.pc = "returned"]
    /\ currentUser' = sessionAfter(request.op, request.step, currentUser)
    /\ UNCHANGED <<reactVars, uploadedFiles, up, progress, sub, decades, notifications,
                   memories, inviteVars, viewVars, selection, authCurrentUser, compression, previewVars, commentVars>>

\* The awaited backend call rejects: the catch block runs.
BackendRejected ==
    /\ request.pc = "awaiting"
    /\ request' = [request EXCEPT !.pc = catchBlock(request.op), !.rejected = TRUE]
    /\ UNCHANGED <<workflowVars, inviteVars, viewVars, selection, authCurrentUser, compression, previewVars, commentVars>>

\* The observer registered by AuthModule.init runs after the session has
\* changed (and once after the page has loaded): it copies the session into
\* AuthModule.currentUser.
AuthStateChanged ==
    /\ authCurrentUser # currentUser
    /\ authCurrentUser' = currentUser
    /\ UNCHANGED <<workflowVars, inviteVars, viewVars, request, selection, compression, previewVars, commentVars>>

InitRequest ==
    /\ currentUser \in Users \cup {NoUser}
    /\ uploadedFiles = <<>>
    /\ up = IdleUpload
    /\ progress = <<>>
    /\ sub = IdleSubmit
    /\ memories = <<>>
    /\ decades = [d \in Decades |-> 0]
    /\ notifications = 0
    /\ reactionDocs = {}
    /\ calls = [c \in 1..MaxCalls |-> IdleCall]
    /\ SiteIdle

NextRequest ==
    \/ OperationCall
    \/ BackendResolved
    \/ BackendRejected
    \/ AuthStateChanged

SpecRequest == InitRequest /\ [][NextRequest]_vars

----------------------------------------------------------------------------
(* Actions of StorageModule.uploadWithCompression *)

\* The call, up to its first await: compressImage for an image above the
\* threshold, else uploadFile with the argument.  One call is followed per
\* behaviour.
UploadWithCompressionCall ==
    /\ compression.pc = "idle"
    /\ \E file \in CompressionFiles :
          LET c == [IdleCompression EXCEPT !.file = file, !.fileToUpload = file]
          IN compression' = IF needsCompression(file)
                            THEN [c EXCEPT !.pc = "compressing"]
                            ELSE startUploadFile(c, currentUser)
    /\ UNCHANGED <<workflowVars, inviteVars, viewVars, request, selection, authCurrentUser, previewVars, commentVars>>

\* The image has loaded and toBlob has called back: compressImage resolves,
\* fileToUpload is assigned and uploadFile is called.
CompressionResolved ==
    /\ compression.pc = "compressing"
    /\ \E outcome \in {"blob", "null"}, blobSize \in BlobSizes :
          compression' =
             startUploadFile([compression EXCEPT
                                 !.compressed = outcome,
                                 !.fileToUpload = compressImage(compression.file, outcome, blobSize)],
                             currentUser)
    /\ UNCHANGED <<workflowVars, inviteVars, viewVars, request, selection, authCurrentUser, previewVars, commentVars>>

\* img.onerror: compressImage rejects.
CompressionRejected ==
    /\ compression.pc = "compressing"
    /\ compression' = catchCompressionError(compression, currentUser)
    /\ UNCHANGED <<workflowVars, inviteVars, viewVars, request, selection, authCurrentUser, previewVars, commentVars>>

\* The put succeeds: the completion observer asks for the download URL.
CompressedPutComplete ==
    /\ compression.pc = "put"
    /\ compression' = [compression EXCEPT !.pc = "url"]
    /\ UNCHANGED <<workflowVars, inviteVars, viewVars, request, selection, authCurrentUser, previewVars, commentVars>>

\* The put fails: uploadFile, and with it uploadWithCompression, rejects.
CompressedPutError ==
    /\ compression.pc = "put"
    /\ compression' = [compression EXCEPT !.pc = "failed", !.error = StorageError]
    /\ UNCHANGED <<workflowVars, inviteVars, viewVars, request, selection, authCurrentUser, previewVars, commentVars>>

\* getDownloadURL resolves: the call resolves with the record.
CompressedUrlResolved ==
    /\ compression.pc = "url"
    /\ compression' = [compression EXCEPT
                          !.pc = "done",
                          !.result = uploadResult(compression.putFile, 1, 1)]
    /\ UNCHANGED <<workflowVars, inviteVars, viewVars, request, selection, authCurrentUser, previewVars, commentVars>>

\* getDownloadURL rejects.
CompressedUrlRejected ==
    /\ compression.pc = "url"
    /\ compression' = [compression EXCEPT !.pc = "failed", !.error = StorageError]
    /\ UNCHANGED <<workflowVars, inviteVars, viewVars, request, selection, authCurrentUser, previewVars, commentVars>>

InitCompress ==
    /\ currentUser \in Users \cup {NoUser}
    /\ uploadedFiles = <<>>
    /\ up = IdleUpload
    /\ progress = <<>>
    /\ sub = IdleSubmit
    /\ memories = <<>>
    /\ decades = [d \in Decades |-> 0]
    /\ notifications = 0
    /\ reactionDocs = {}
    /\ calls = [c \in 1..MaxCalls |-> IdleCall]
    /\ SiteIdle

NextCompress ==
    \/ UploadWithCompressionCall
    \/ CompressionResolved
    \/ CompressionRejected
    \/ CompressedPutComplete
    \/ CompressedPutError
    \/ CompressedUrlResolved
    \/ CompressedUrlRejected
    \/ SignIn
    \/ SignOut

SpecCompress == InitCompress /\ [][NextCompress]_vars

----------------------------------------------------------------------------
(* Actions of DatabaseModule.addComment *)

\* The call, up to its first await.
AddCommentCall ==
    /\ commentCall.pc = "idle"
    /\ \E memoryId \in 1..Len(memories) :
          commentCall' = addCommentStart(memoryId, currentUser)
    /\ UNCHANGED <<workflowVars, inviteVars, viewVars, request, selection, authCurrentUser,
                   compression, previewVars, comments>>

\* The add to memories/<id>/comments resolves; the increment of
\* commentCount is issued.
CommentAddResolved ==
    /\ commentCall.pc = "add"
    /\ comments' = Append(comments, commentCall.comment)
    /\ commentCall' = [commentCall EXCEPT !.pc = "update"]
    /\ UNCHANGED <<workflowVars, inviteVars, viewVars, request, selection, authCurrentUser,
                   compression, previewVars>>

\* The add rejects: the catch block re-throws.
CommentAddRejected ==
    /\ commentCall.pc = "add"
    /\ commentCall' = [commentCall EXCEPT !.pc = "failed", !.error = "backend"]
    /\ UNCHANGED <<workflowVars, inviteVars, viewVars, request, selection, authCurrentUser,
                   compression, previewVars, comments>>

\* The increment of commentCount resolves; addComment returns the comment.
CommentCountResolved ==
    /\ commentCall.pc = "update"
    /\ memories' = [memories EXCEPT ![commentCall.comment.memoryId].commentCount = @ + 1]
    /\ commentCall' = [commentCall EXCEPT !.pc = "done"]
    /\ UNCHANGED <<reactVars, clientVars, inviteVars, viewVars, request, selection,
                   authCurrentUser, compression, previewVars, comments>>

\* The increment rejects: the catch block re-throws.
CommentCountRejected ==
    /\ commentCall.pc = "update"
    /\ commentCall' = [commentCall EXCEPT !.pc = "failed", !.error = "backend"]
    /\ UNCHANGED <<workflowVars, inviteVars, viewVars, request, selection, authCurrentUser,
                   compression, previewVars, comments>>

----------------------------------------------------------------------------
(* Specification of the operations that look for the signed-in user:       *)
(* addMemory (called by submitMemoryToFirebase without pending files),     *)
(* uploadFile (called by uploadWithCompression), sendInvite (a batch of    *)
(* one address), addReaction and addComment.  One call is followed per     *)
(* behaviour, with or without a user, and the user signs in and out at any *)
(* time.  The store holds one memory, with or without a reaction on it.    *)

\* None of the five operations has been called.
NothingCalled ==
    /\ sub.pc = "idle"
    /\ compression.pc = "idle"
    /\ sends[1].pc = "idle"
    /\ \A c \in 1..MaxCalls : calls[c].pc = "idle"
    /\ commentCall.pc = "idle"

AddMemoryCalled == NothingCalled /\ SubmitCall

UploadFileCalled == NothingCalled /\ UploadWithCompressionCall

SendInviteCalled == NothingCalled /\ SendInvitesCall(1)

AddReactionCalled == NothingCalled /\ ReactionCall(1)

AddCommentCalled == NothingCalled /\ AddCommentCall

InitGuest ==
    /\ currentUser \in Users \cup {NoUser}
    /\ uploadedFiles = <<>>
    /\ up = IdleUpload
    /\ progress = <<>>
    /\ sub = IdleSubmit
    /\ decades = [d \in Decades |-> IF d = "1990s" THEN 1 ELSE 0]
    /\ notifications = 1
    /\ calls = [c \in 1..MaxCalls |-> IdleCall]
    /\ \/ /\ memories = <<newMemory("1990s", "u1")>>
          /\ reactionDocs = {}
       \/ /\ memories = <<incrementReaction(<<newMemory("1990s", "u1")>>, 1, "swim", 1)[1]>>
          /\ reactionDocs = docSet({}, 1, reactionDocId("u1", "swim"),
                                  [type |-> "swim", userId |-> "u1"])
    /\ inviteEmails \in { l \in StagedLists : Len(l) = 1 }
    /\ inviteOp = NoInviteOp
    /\ invites = <<>>
    /\ sends = [k \in 1..MaxSends |-> IdleSend]
    /\ ViewInitial
    /\ request = IdleRequest
    /\ selection = NoSelection
    /\ authCurrentUser = NoUser
    /\ compression = IdleCompression
    /\ reads = <<>>
    /\ previews = <<>>
    /\ comments = <<>>
    /\ commentCall = IdleComment

NextGuest ==
    \/ SignIn
    \/ SignOut
    \/ AddMemoryCalled
    \/ InsertResolved
    \/ InsertRejected
    \/ IncrementResolved
    \/ IncrementRejected
    \/ NotifyResolved
    \/ NotifyRejected
    \/ UploadFileCalled
    \/ CompressionResolved
    \/ CompressionRejected
    \/ CompressedPutComplete
    \/ CompressedPutError
    \/ CompressedUrlResolved
    \/ CompressedUrlRejected
    \/ SendInviteCalled
    \/ InviteQueryResolved(1)
    \/ InviteQueryRejected(1)
    \/ InviteAddResolved(1)
    \/ InviteAddRejected(1)
    \/ AddReactionCalled
    \/ GetResolved(1)
    \/ DeleteResolved(1)
    \/ DecrementResolved(1)
    \/ DecrementOldResolved(1)
    \/ SetResolved(1)
    \/ ReactionIncrementResolved(1)
    \/ ReactionRejected(1)
    \/ AddCommentCalled
    \/ CommentAddResolved
    \/ CommentAddRejected
    \/ CommentCountResolved
    \/ CommentCountRejected

SpecGuest == InitGuest /\ [][NextGuest]_vars

----------------------------------------------------------------------------
(* Claims about the upload orchestrator, checked under SpecUpload *)

IsErrorEntry(r) == "error" \in DOMAIN r

\* C1: the result list of uploadMultipleFiles follows the input list: one
\* entry per settled file, in input order, and when the call returns as many
\* entries as files; entry k is a success record of file k (its name, size
\* and type, a non-empty URL) or an error record with file k's name and a
\* message.
C1_ResultsFollowInput ==
    /\ up.pc = "done" => Len(up.results) = Len(up.fileArray)
    /\ Len(up.results) <= Len(up.fileArray)
    /\ \A k \in 1..Len(up.results) :
          LET r == up.results[k]
              f == up.fileArray[k]
          IN IF IsErrorEntry(r)
             THEN DOMAIN r = {"error", "name"} /\ r.name = f.name /\ r.error # ""
             ELSE /\ DOMAIN r = {"url", "path", "name", "size", "type"}
                  /\ r.url # <<>>
                  /\ r.name = f.name /\ r.size = f.size /\ r.type = f.type

\* C1 witness: a returned batch of two files, the first failed after its put
\* started, the second uploaded.
C1_Witness ==
    /\ up.pc = "done"
    /\ Len(up.fileArray) = 2
    /\ up.putCalls = <<1, 2>>
    /\ IsErrorEntry(up.results[1])
    /\ ~ IsErrorEntry(up.results[2])

\* C2: the overallPercent values handed to the progress callback during one
\* call never decrease, and 100 percent is handed over only when every file
\* other than the one whose last bytes are being reported has settled.
C2_ProgressMonotone ==
    /\ Len(progress) = 2 => progress[1].overall <= progress[2].overall
    /\ \A j \in 1..Len(progress) :
          progress[j].overall = 100 * totalBytes(up)
             => \A k \in 1..Len(up.fileArray) : k < up.i \/ k = progress[j].current

\* C3: the attempts are the input sequence: file k is the k-th attempt, an
\* attempt starts only when every earlier one has settled (at most one
\* unsettled attempt), and when the call returns every file was attempted,
\* whatever failed.
C3_AttemptsInInputOrder ==
    /\ \A k \in 1..Len(up.attempts) : up.attempts[k] = k
    /\ Len(up.attempts) - Len(up.results) \in {0, 1}
    /\ up.pc \in {"put", "url"} => Len(up.attempts) = Len(up.results) + 1
    /\ up.pc = "done" =>
          /\ Len(up.attempts) = Len(up.fileArray)
          /\ Len(up.results) = Len(up.attempts)

\* C3 witness: the second file is in flight after the first file's upload
\* failed in the blob store.
C3_Witness ==
    /\ up.pc = "put"
    /\ up.i = 2
    /\ up.putCalls = <<1, 2>>
    /\ IsErrorEntry(up.results[1])
    /\ up.results[1].error = StorageError

\* The files upload-time validation turns away: larger than 10 MB, or of a
\* media type other than jpeg, png, gif, webp and pdf.
TurnedAway(file) ==
    \/ file.size > 10
    \/ file.type \notin { <<"image", "jpeg">>, <<"image", "png">>, <<"image", "gif">>,
                          <<"image", "webp">>, <<"application", "pdf">> }

\* C17: no blob-store put is made for a file larger than 10 MB or of a type
\* outside the allow-list; in a batch such a file gets an error entry with
\* the validation message (the size limit for a file larger than 10 MB, the
\* type for a smaller one; or the sign-in message when nobody is signed in),
\* every file is still attempted, and a file that passes validation while a
\* user is signed in is put.
C17_ValidationPrecedesUpload ==
    /\ \A k \in 1..Len(up.putCalls) : ~ TurnedAway(up.fileArray[up.putCalls[k]])
    /\ \A k \in 1..Len(up.results) :
          TurnedAway(up.fileArray[k]) =>
             /\ IsErrorEntry(up.results[k])
             /\ up.results[k].error \in
                   { IF up.fileArray[k].size > 10 THEN "exceeds 10MB limit"
                                                  ELSE "type is not allowed",
                     "Must be signed in to upload files" }
    /\ \A k \in 1..Len(up.results) :
          (~ TurnedAway(up.fileArray[k]) /\ IsErrorEntry(up.results[k])) =>
             up.results[k].error \in { StorageError, "Must be signed in to upload files" }
    /\ \A k \in 1..Len(up.results) :
          (IsErrorEntry(up.results[k]) /\ up.results[k].error = StorageError) =>
             \E j \in 1..Len(up.putCalls) : up.putCalls[j] = k
    /\ up.pc = "done" => Len(up.attempts) = Len(up.fileArray)

\* C17 witness: a returned batch of a 12 MB image and a 1 MB image: the
\* first has a size-limit error entry and was never put, the second is
\* uploaded.
C17_Witness ==
    /\ up.pc = "done"
    /\ Len(up.fileArray) = 2
    /\ up.fileArray[1].size = 12
    /\ IsErrorEntry(up.results[1])
    /\ up.results[1].error = "exceeds 10MB limit"
    /\ ~ IsErrorEntry(up.results[2])
    /\ up.putCalls = <<2>>

----------------------------------------------------------------------------
(* Claims about the two-phase submission, checked under SpecSubmit *)

Succeeded(results) == { k \in 1..Len(results) : ~ IsErrorEntry(results[k]) }

\* C4: with attachments pending, the record is patched only after every
\* upload of the batch has settled (until then its attachment list is
\* empty), each file is put at most once, and when the submission returns
\* the record's attachment list is the URLs of the succeeded uploads, in
\* input order, and nothing else.
C4_PatchWithSucceededUrls ==
    /\ sub.pc \in {"uploading", "patching"} => memories[sub.memoryId].images = <<>>
    /\ sub.patches > 0 =>
          /\ up.pc = "done"
          /\ Len(up.results) = Len(up.fileArray)
          /\ sub.patches = 1
    /\ \A a, b \in 1..Len(up.putCalls) : a # b => up.putCalls[a] # up.putCalls[b]
    /\ (sub.pc = "done" /\ sub.pending > 0) =>
          LET images == memories[sub.memoryId].images
              ok == Succeeded(up.results)
          IN /\ up.fileArray # <<>>
             /\ Len(images) = Cardinality(ok)
             /\ \A k \in ok :
                   images[Cardinality({ j \in ok : j <= k })] = up.results[k].url

\* C4 witness: a returned submission of two files, both uploaded, whose
\* record holds two URLs.
C4_Witness ==
    /\ sub.pc = "done"
    /\ Len(up.fileArray) = 2
    /\ Succeeded(up.results) = {1, 2}
    /\ Len(memories[sub.memoryId].images) = 2

C6_InsertFailureAborts ==
    sub.insert \in {"rejected", "nouser"} =>
       /\ sub.pc = "failed"
       /\ sub.error = (IF sub.insert = "nouser" THEN "auth" ELSE "insert")
       /\ up.pc = "idle"
       /\ sub.patches = 0
       /\ sub.increment = "none" /\ decades = sub.pre.decades
       /\ sub.notify = "none" /\ notifications = sub.pre.notifications
       /\ Len(memories) = sub.pre.memories

\* C6 witness: the store rejected the insert while files were pending.
C6_Witness ==
    /\ sub.insert = "rejected"
    /\ sub.pc = "failed"
    /\ uploadedFiles # <<>>

\* C7: when the decade increment or the notification write was rejected, no
\* error of theirs is thrown (the call can only fail later, in the patch),
\* the inserted record is in the store under the returned id and, once
\* addMemory has returned, the pending list was read and the orchestrator
\* was called for that id if it held files.
C7_SideEffectFailureTolerated ==
    (sub.increment = "rejected" \/ sub.notify = "rejected") =>
       /\ sub.pc = "failed" => sub.error = "patch"
       /\ sub.insert = "ok"
       /\ sub.memoryId = sub.pre.memories + 1
       /\ Len(memories) = sub.pre.memories + 1
       /\ memories[sub.memoryId].decade = sub.decade
       /\ sub.notify # "none" =>
             /\ sub.pending = Len(up.fileArray)
             /\ sub.pending > 0 => up.pc # "idle" /\ up.memoryId = sub.memoryId

\* C7 witness: both side effects were rejected and the submission returned
\* with an uploaded attachment on the record.
C7_Witness ==
    /\ sub.increment = "rejected"
    /\ sub.notify = "rejected"
    /\ sub.pc = "done"
    /\ Len(memories[sub.memoryId].images) >= 1

\* C8 as claimed: once the insert has succeeded and the increment has been
\* answered, the record's decade counter is exactly one higher than before
\* the submission and every other counter is unchanged; without a
\* successful insert no counter changes.
C8_ExactlyOneIncrement ==
    sub.pc # "idle" =>
       /\ (sub.insert = "ok" /\ sub.pc # "incrementing") =>
             decades = [sub.pre.decades EXCEPT ![sub.decade] = @ + 1]
       /\ sub.insert # "ok" => decades = sub.pre.decades

\* C8 as amended: a submission whose insert succeeded raises its decade's
\* counter by exactly one when the increment write succeeds and leaves it
\* unchanged when that write is rejected (or not yet answered); every other
\* counter is unchanged, whatever the number of attachments; without a
\* successful insert no counter changes.
C8_IncrementOnlyIfWriteSucceeds ==
    sub.pc # "idle" =>
       /\ (sub.insert = "ok" /\ sub.increment = "ok") =>
             decades = [sub.pre.decades EXCEPT ![sub.decade] = @ + 1]
       /\ (sub.insert = "ok" /\ sub.increment # "ok") => decades = sub.pre.decades
       /\ sub.insert # "ok" => decades = sub.pre.decades /\ sub.increment = "none"

\* C8 witness: a returned submission with two attachments whose increment
\* succeeded, in a store that already counted a memory.
C8_Witness ==
    /\ sub.pc = "done"
    /\ sub.increment = "ok"
    /\ Len(up.fileArray) = 2
    /\ sub.pre.decades["1990s"] = 1
    /\ decades[sub.decade] = sub.pre.decades[sub.decade] + 1

----------------------------------------------------------------------------
(* Claims about the reaction toggle, checked under SpecReact *)

TypesHeld(docs, memoryId, user) == { d.type : d \in ReactionsOf(docs, memoryId, user) }

\* C9: in every reachable state a user holds at most one reaction join
\* record on a record, however the addReaction calls interleave.
C9_OneReactionPerUser ==
    \A memoryId \in 1..Len(memories), user \in Reactors :
       Cardinality(ReactionsOf(reactionDocs, memoryId, user)) <= 1

\* C9 witness: two calls of the same user for different types overlapped,
\* both returned true, and the user holds one join record.
C9_Witness ==
    /\ calls[1].pc = "done" /\ calls[2].pc = "done"
    /\ calls[1].user = calls[2].user
    /\ calls[1].type # calls[2].type
    /\ ~ calls[1].alone /\ ~ calls[2].alone
    /\ calls[1].ret = "true" /\ calls[2].ret = "true"
    /\ Cardinality(ReactionsOf(reactionDocs, 1, calls[1].user)) = 1

\* The call c has returned, ran with no other call in progress, and no call
\* was made since: the state is the one it left.
JustReturnedAlone(c) ==
    /\ calls[c].pc = "done"
    /\ calls[c].user # NoUser
    /\ calls[c].alone
    /\ \A b \in (c + 1)..MaxCalls : calls[b].pc = "idle"

\* C10: a returned addReaction(record, t) of a signed-in user has, by case
\* on the join record the user held when the call was made: same type t ->
\* the join record is gone, counter t is one lower, false is returned;
\* another type u -> the join record holds t, counter u is one lower and
\* counter t one higher, true is returned; none -> the join record holds t,
\* counter t is one higher, true is returned.  No other counter and no other
\* user's join record has changed.
C10_ToggleByCase ==
    \A c \in 1..MaxCalls :
       JustReturnedAlone(c) =>
          LET k == calls[c]
              t == k.type
              before == k.pre.reactions
              now == memories[k.memoryId].reactions
              held == TypesHeld(k.pre.docs, k.memoryId, k.user)
              holds == TypesHeld(reactionDocs, k.memoryId, k.user)
          IN /\ { d \in reactionDocs : d.userId # k.user }
                   = { d \in k.pre.docs : d.userId # k.user }
             /\ \/ /\ held = {t}
                   /\ holds = {}
                   /\ now = [before EXCEPT ![t] = @ - 1]
                   /\ k.ret = "false"
                \/ /\ \E u \in ReactionTypes \ {t} :
                         /\ held = {u}
                         /\ now = [before EXCEPT ![u] = @ - 1, ![t] = @ + 1]
                   /\ holds = {t}
                   /\ k.ret = "true"
                \/ /\ held = {}
                   /\ holds = {t}
                   /\ now = [before EXCEPT ![t] = @ + 1]
                   /\ k.ret = "true"

\* C10 witness: a call that ran alone switched the user's reaction from
\* swim to heart.
C10_Witness ==
    /\ JustReturnedAlone(2)
    /\ TypesHeld(calls[2].pre.docs, 1, calls[2].user) = {"swim"}
    /\ calls[2].type = "heart"
    /\ calls[2].ret = "true"

\* The calls c and c + 1 are two consecutive completed toggles of the same
\* type by the same user on the same record: each ran with no other call in
\* progress and no call was made since.
ToggledTwice(c) ==
    /\ calls[c].pc = "done"
    /\ calls[c].user # NoUser
    /\ calls[c].alone
    /\ JustReturnedAlone(c + 1)
    /\ calls[c + 1].user = calls[c].user
    /\ calls[c + 1].memoryId = calls[c].memoryId
    /\ calls[c + 1].type = calls[c].type

\* C11 as claimed: two consecutive completed addReaction calls of one user
\* with one type leave the record's reaction counters as they were before
\* the first call.
C11_ToggleTwiceRestores ==
    \A c \in 1..(MaxCalls - 1) :
       ToggledTwice(c) =>
          memories[calls[c].memoryId].reactions = calls[c].pre.reactions

\* C11 as amended: the counters are as before the first call when the user
\* held no reaction of another type on the record before the first call
\* (none, or one of the toggled type); when the user held another type u,
\* counter u is one lower than before and the others are as before.
C11_ToggleTwiceRestoresUnlessSwitched ==
    \A c \in 1..(MaxCalls - 1) :
       ToggledTwice(c) =>
          LET k == calls[c]
              held == TypesHeld(k.pre.docs, k.memoryId, k.user)
              now == memories[k.memoryId].reactions
          IN IF held \subseteq {k.type}
             THEN now = k.pre.reactions
             ELSE \E u \in ReactionTypes \ {k.type} :
                     /\ held = {u}
                     /\ now = [k.pre.reactions EXCEPT ![u] = @ - 1]

\* C11 witness: a user without a reaction toggled heart on and off again:
\* the first call returned true, the second false.
C11_Witness ==
    /\ ToggledTwice(1)
    /\ TypesHeld(calls[1].pre.docs, 1, calls[1].user) = {}
    /\ calls[1].type = "heart"
    /\ calls[1].ret = "true"
    /\ calls[2].ret = "false"

\* No addReaction call is in progress.
Quiescent == \A c \in 1..MaxCalls : ~ InProgress(c)

\* C21: in every reachable state every reaction counter of every record is
\* a non-negative integer, also when addReaction calls of one user or of
\* several users interleave at their awaits.
C21_CountersNonNegative ==
    \A memoryId \in 1..Len(memories), t \in ReactionTypes :
       /\ memories[memoryId].reactions[t] \in Int
       /\ memories[memoryId].reactions[t] >= 0

\* The number of join records of type t on a record.
JoinRecords(docs, memoryId, t) ==
    Cardinality({ d \in docs : d.memoryId = memoryId /\ d.type = t })

\* C22: in every state where no addReaction call is in progress, each
\* reaction counter of a record equals the number of join records of that
\* type on the record, also after calls have interleaved.
C22_CountersMatchJoinRecords ==
    Quiescent =>
       \A memoryId \in 1..Len(memories), t \in ReactionTypes :
          memories[memoryId].reactions[t] = JoinRecords(reactionDocs, memoryId, t)

----------------------------------------------------------------------------
(* Claims about the invite form, checked under SpecInviteForm *)

NoDuplicate(list) == \A a, b \in 1..Len(list) : a # b => list[a] # list[b]

\* The shape local-part@domain.tld: one "@", no whitespace, something before
\* the "@", and after it a dot with something on both of its sides.
HasEmailShape(e) ==
    /\ Cardinality({ k \in 1..Len(e) : e[k] = "@" }) = 1
    /\ \A k \in 1..Len(e) : e[k] \notin Whitespace
    /\ LET at == CHOOSE k \in 1..Len(e) : e[k] = "@"
       IN /\ at > 1
          /\ \E dot \in (at + 2)..(Len(e) - 1) : e[dot] = "."

\* C12: addInviteEmail leaves the staged list as it found it when the
\* (trimmed) address is empty, is not of the shape local-part@domain.tld, or
\* is already staged, and otherwise appends the address at the end; in every
\* reachable state the staged list holds no address twice and no malformed
\* address.
C12_AddInviteEmail ==
    /\ NoDuplicate(inviteEmails)
    /\ \A k \in 1..Len(inviteEmails) : HasEmailShape(inviteEmails[k])
    /\ inviteOp.op = "add" =>
          LET address == trim(inviteOp.arg)
              rejected == \/ address = <<>>
                          \/ ~ HasEmailShape(address)
                          \/ \E k \in 1..Len(inviteOp.before) : inviteOp.before[k] = address
          IN inviteEmails = IF rejected THEN inviteOp.before
                            ELSE Append(inviteOp.before, address)

\* C12 witness: with two addresses staged, the first one was typed again
\* and the list is as it was.
C12_Witness ==
    /\ inviteOp.op = "add"
    /\ Len(inviteOp.before) = 2
    /\ trim(inviteOp.arg) = inviteOp.before[1]
    /\ inviteEmails = inviteOp.before

\* The invite records of the store for the address e.
RecordsFor(e) == { k \in 1..Len(invites) : invites[k].email = toLowerCase(e) }

\* C13: after a send with a non-empty staged list (the form's submit
\* handler has run, or sendInvitesToFirebase has returned for the staged
\* list) the store holds exactly one invite record per staged address, with
\* the shared message, and the staged list is empty.
C13_SendCreatesOneRecordEach ==
    /\ (inviteOp.op = "submit" /\ inviteOp.before # <<>>) =>
          /\ inviteEmails = <<>>
          /\ \A k \in 1..Len(inviteOp.before) :
                Cardinality(RecordsFor(inviteOp.before[k])) = 1
    /\ (sends[1].pc = "done" /\ sends[1].emails # <<>>) =>
          /\ inviteEmails = <<>>
          /\ \A k \in 1..Len(sends[1].emails) :
                /\ Cardinality(RecordsFor(sends[1].emails[k])) = 1
                /\ \A r \in RecordsFor(sends[1].emails[k]) :
                      invites[r].personalMessage = sends[1].message

\* C15: removeInviteEmail(e) leaves no entry equal to e, keeps every other
\* entry of the list it found, in the same order, and leaves a list without
\* e as it is.
C15_RemoveExactMatches ==
    inviteOp.op = "remove" =>
       LET e == inviteOp.arg
           kept == { j \in 1..Len(inviteOp.before) : inviteOp.before[j] # e }
       IN /\ \A k \in 1..Len(inviteEmails) : inviteEmails[k] # e
          /\ Len(inviteEmails) = Cardinality(kept)
          /\ \A j \in kept :
                inviteEmails[Cardinality({ i \in kept : i <= j })] = inviteOp.before[j]
          /\ kept = 1..Len(inviteOp.before) => inviteEmails = inviteOp.before

\* C15 witness: the middle one of three staged addresses was removed.
C15_Witness ==
    /\ inviteOp.op = "remove"
    /\ Len(inviteOp.before) = 3
    /\ inviteOp.before[2] = inviteOp.arg
    /\ inviteEmails = <<inviteOp.before[1], inviteOp.before[3]>>

----------------------------------------------------------------------------
(* Claims about the invites collection, checked under SpecInvite *)

\* C14: in every reachable state the invites collection holds at most one
\* pending record per (lower-cased) address.
C14_OnePendingInvitePerAddress ==
    \A a, b \in 1..Len(invites) :
       (a # b /\ invites[a].status = "pending" /\ invites[b].status = "pending")
          => invites[a].email # invites[b].email

\* The user of client k while signed in: the page's user is u1, the other
\* clients are u2's.
InviterOf(k) == IF k = 1 THEN "u1" ELSE "u2"

\* The invite records a user has created.
RecordsBy(user) == { r \in 1..Len(invites) : invites[r].invitedBy = user }

\* C27: sendInvite is called for the addresses of a batch in order, one at
\* a time.  When it fails for the address at position i (the backend
\* rejected the query or the add, the address is already invited, also by
\* an earlier address of the batch that differs in letter case only, or
\* nobody is signed in), the call has thrown that error, no later address
\* was attempted, and the records of the i - 1 earlier addresses are in the
\* store with the batch's message: the page's user has created these
\* records and no other.
C27_BatchStopsAtFirstFailure ==
    /\ \A k \in 1..MaxSends :
          LET s == sends[k]
          IN /\ \A j \in 1..Len(s.attempts) : s.attempts[j] = j
             /\ s.pc \in {"query", "add", "failed"} =>
                   /\ Len(s.attempts) = s.i
                   /\ s.i <= Len(s.emails)
             /\ s.pc = "failed" <=> s.error # "none"
             /\ s.pc = "failed" =>
                   \A j \in 1..(s.i - 1) :
                      \E r \in RecordsFor(s.emails[j]) :
                         /\ invites[r].invitedBy = InviterOf(k)
                         /\ invites[r].personalMessage = s.message
                         /\ invites[r].status = "pending"
    /\ sends[1].pc \in {"query", "add", "failed"} =>
          Cardinality(RecordsBy("u1")) = sends[1].i - 1
    /\ \A a, b \in RecordsBy("u1") : a # b => invites[a].email # invites[b].email

\* C27 witness: the page sent a@b.c and A@b.c: the second address was
\* found invited, the call threw, and the record of the first is the only
\* one in the store.
C27_Witness ==
    /\ sends[1].emails = << <<"a", "@", "b", ".", "c">>, <<"A", "@", "b", ".", "c">> >>
    /\ sends[1].pc = "failed"
    /\ sends[1].i = 2
    /\ sends[1].error = "This email has already been invited"
    /\ Len(invites) = 1
    /\ invites[1].invitedBy = "u1"
    /\ invites[1].email = <<"a", "@", "b", ".", "c">>

----------------------------------------------------------------------------
(* Claims about the navigation, checked under SpecView *)

\* C16: in every reachable state state.currentView is one of the views and
\* state.currentDecade one of the eight decade labels, exactly one view
\* element carries the active flag, the one of the current view, and exactly
\* one decade marker, the one of the current decade.
C16_OneActiveViewAndDecade ==
    /\ currentView \in Views
    /\ Cardinality(DecadeLabels) = 8
    /\ currentDecade \in DecadeLabels
    /\ Cardinality(active \cap ViewElements) = 1
    /\ \A e \in active \cap ViewElements : e.data = currentView
    /\ Cardinality(active \cap DecadeMarkers) = 1
    /\ \A e \in active \cap DecadeMarkers : e.data = currentDecade

\* C16 witness: view, decade and type have all been switched, and the
\* display still shows an earlier decade.
C16_Witness ==
    /\ currentView = "invite"
    /\ currentDecade = "2010s"
    /\ memoryType = "story"
    /\ decadeDisplay = "1950s"
    /\ timers = <<"2010s">>

----------------------------------------------------------------------------
(* Claims about the file selection, checked under SpecSelect *)

\* The positions of the selected files that are images of at most 10 MB.
Acceptable(files) ==
    { k \in 1..Len(files) : files[k].type[1] = "image" /\ files[k].size <= 10 }

\* The pending list after the selection is the list before it followed by
\* the acceptable files, in the order selected; a selection of files larger
\* than 10 MB only leaves it unchanged.
SelectionAppendsAcceptable ==
    LET ok == Acceptable(selection.files)
    IN /\ Len(selection.after) = Len(selection.before) + Cardinality(ok)
       /\ SubSeq(selection.after, 1, Len(selection.before)) = selection.before
       /\ \A k \in ok :
             selection.after[Len(selection.before) + Cardinality({ j \in ok : j <= k })]
                = selection.files[k]

\* When every selected file is larger than 10 MB nothing is pending, and a
\* submission that got past its insert and side effects has found no
\* pending file, has returned, and has neither uploaded nor patched.
OversizeOnlySubmitsWithoutAttachments ==
    (selection # NoSelection /\ \A k \in 1..Len(selection.files) : selection.files[k].size > 10) =>
       /\ uploadedFiles = <<>>
       /\ sub.pending # -1 =>
             /\ sub.pending = 0
             /\ sub.pc = "done"
             /\ up.pc = "idle"
             /\ sub.patches = 0
             /\ memories[sub.memoryId].images = <<>>

\* C18 as claimed: every selected file larger than 10 MB is answered with
\* the size-limit toast and not appended; the pending list grows by the
\* images of at most 10 MB only; when the files larger than 10 MB are the
\* only ones selected, the submission goes on with zero attachments.
C18_OversizeGetsSizeError ==
    /\ \A k \in 1..Len(selection.files) :
          selection.files[k].size > 10 => selection.shown[k] = "File Too Large"
    /\ SelectionAppendsAcceptable
    /\ OversizeOnlySubmitsWithoutAttachments

\* C18 as amended: a selected image larger than 10 MB is answered with the
\* size-limit toast, a selected file larger than 10 MB that is not an image
\* with the invalid-file toast (the type is tested first); neither is
\* appended; the rest as claimed.
C18_OversizeRejectedBeforeUpload ==
    /\ \A k \in 1..Len(selection.files) :
          selection.files[k].size > 10 =>
             selection.shown[k] = (IF selection.files[k].type[1] = "image"
                                   THEN "File Too Large" ELSE "Invalid File")
    /\ SelectionAppendsAcceptable
    /\ OversizeOnlySubmitsWithoutAttachments

\* C18 witness: a 12 MB image was the only file selected, it was answered
\* with the size-limit toast, and the submission made afterwards returned
\* with a record without attachments.
C18_Witness ==
    /\ Len(selection.files) = 1
    /\ selection.files[1].size = 12
    /\ selection.shown = <<"File Too Large">>
    /\ selection.after = <<>>
    /\ sub.pc = "done"
    /\ sub.insert = "ok"
    /\ sub.pending = 0
    /\ Len(memories) = sub.pre.memories + 1

\* C26: every file handleFileUpload has put into the pending list passes
\* the upload-time validation (at most 10 MB, of an allowed type), and no
\* file of a submission's batch gets a validation error in phase 2.
C26_StagedFilesPassValidation ==
    /\ \A k \in 1..Len(uploadedFiles) : ~ TurnedAway(uploadedFiles[k])
    /\ sub.pc \in {"uploading", "patching", "done", "failed"} =>
          \A k \in 1..Len(up.results) :
             IsErrorEntry(up.results[k]) =>
                up.results[k].error \notin {"exceeds 10MB limit", "type is not allowed"}

----------------------------------------------------------------------------
(* Claims about the operations' catch blocks, checked under SpecRequest *)

\* C19: an operation in which a backend call was rejected has thrown to its
\* caller, unless it is one of the two best-effort side effects
\* (notification-record creation, decade-counter increment).
C19_BackendErrorsRethrown ==
    request.rejected =>
       \/ request.pc = "threw"
       \/ request.op.name \in {"notifySubscribers", "incrementDecadeCount"}

\* The steps that change the session or its copy in AuthModule are steps
\* of the operations named in ops: the session changes only when a backend
\* call of such an operation resolves, and the copy changes only in the
\* observer, which writes the session into it during no operation's step.
SessionChangedOnlyBy(ops) ==
    /\ currentUser' # currentUser =>
          /\ request.pc = "awaiting"
          /\ request.op.name \in ops
    /\ authCurrentUser' # authCurrentUser =>
          /\ authCurrentUser' = currentUser
          /\ request' = request

\* C23 as claimed: the session (the backend's current user, copied into
\* AuthModule.currentUser) is changed by no operation other than sign-in
\* (login) and sign-out (logout); register, resetPassword, addMemory,
\* addReaction, addComment, sendInvite, the uploads and the preference
\* update leave it unchanged.
C23_OnlySignInAndSignOutChangeSession ==
    [][SessionChangedOnlyBy({"login", "logout"})]_vars

\* C23 as amended: the session is changed by sign-in, by sign-out and by
\* register, whose account creation signs the new user in; every other
\* operation leaves it unchanged.
C23_OnlyAuthOperationsChangeSession ==
    [][SessionChangedOnlyBy({"login", "logout", "register"})]_vars

\* C23 witness: addMemory has returned in the session of an account that
\* register created, the session is the one addMemory was called in, and
\* AuthModule.currentUser holds it.
C23_Witness ==
    /\ request.op.name = "addMemory"
    /\ request.pc = "returned"
    /\ request.session = NewAccount
    /\ currentUser = NewAccount
    /\ authCurrentUser = NewAccount

----------------------------------------------------------------------------
(* Claims about the previews, checked under SpecPreview *)

\* C25: the remove button of every preview that handleFileUpload's read
\* callback has written removes the file the preview shows: its data-index
\* is the index of that file in the pending list, whatever the order and
\* timing of the read callbacks.
C25_PreviewIndexIsFileIndex ==
    \A k \in 1..Len(previews) :
       previews[k].by = "handleFileUpload" =>
          /\ previews[k].index \in 0..(Len(uploadedFiles) - 1)
          /\ uploadedFiles[previews[k].index + 1] = previews[k].file

----------------------------------------------------------------------------
(* Claims about uploadWithCompression, checked under SpecCompress *)

\* C24: uploadWithCompression sends a file through compression exactly
\* when it is an image larger than 2 MB; when that compression fails the
\* call does not fail with the compression error and hands the original file
\* to the upload; a file that is not an image or is at most 2 MB is handed
\* to the upload as it is; and the file put into the blob store is the one
\* handed to the upload.
C24_CompressOnlyLargeImages ==
    LET c == compression
        large == c.file.type[1] = "image" /\ c.file.size > 2
    IN /\ c.pc = "compressing" => large
       /\ c.pc \notin {"idle", "compressing"} =>
             /\ c.compressed # "none" <=> large
             /\ c.compressed = "error" =>
                   /\ c.uploadArg = c.file
                   /\ c.error \in { "none", StorageError, "Must be signed in to upload files",
                                     "exceeds 10MB limit", "type is not allowed" }
             /\ ~ large => c.uploadArg = c.file
             /\ c.compressed = "blob" =>
                   /\ c.uploadArg.name = c.file.name
                   /\ c.uploadArg.type = <<"image", "jpeg">>
             /\ c.pc \in {"put", "url", "done"} => c.putFile = c.uploadArg
             /\ c.pc = "done" =>
                   /\ c.result.name = c.uploadArg.name
                   /\ c.result.size = c.uploadArg.size
                   /\ c.result.type = c.uploadArg.type

\* C24 witness: the compression of a 5 MB image failed and the call
\* resolved with the record of the uploaded original.
C24_Witness ==
    /\ compression.pc = "done"
    /\ compression.compressed = "error"
    /\ compression.file.size = 5
    /\ compression.putFile = compression.file
    /\ compression.result.size = 5

----------------------------------------------------------------------------
(* Claims about the batch of a submission, checked under SpecSubmit *)

\* The step in which submitMemoryToFirebase reads state.uploadedFiles
\* (line 1262).
ReadsPendingList == sub.pending = -1 /\ sub'.pending # -1

\* The batch of an upload in progress or finished stays what it is.
BatchInFlightKept == up.pc # "idle" => up'.fileArray = up.fileArray

\* C29 as stated: the batch is the pending list as it stood when the insert
\* of phase 1 resolved, and no later change of the list changes it.
C29_BatchIsListWhenInsertCompletes ==
    [][ /\ ReadsPendingList =>
              /\ up'.fileArray = sub.atInsert
              /\ (up'.pc # "idle") = (Len(sub.atInsert) > 0)
        /\ BatchInFlightKept
      ]_vars

\* C29 amended: the batch is the pending list as it stands when addMemory
\* returns, after the insert and the decade-counter and notification writes
\* have settled; phase 2 runs exactly when that list is not empty; and no
\* later addition, removal or reset of the list changes the batch.
C29_BatchIsListWhenAddMemoryReturns ==
    [][ /\ ReadsPendingList =>
              /\ sub.pc = "notifying"
              /\ up'.fileArray = uploadedFiles
              /\ sub'.pending = Len(uploadedFiles)
              /\ (up'.pc # "idle") = (Len(uploadedFiles) > 0)
        /\ BatchInFlightKept
      ]_vars

\* C29 witness: the second file of a batch of two is being put while the
\* pending list has been emptied.
C29_Witness ==
    /\ sub.pc = "uploading"
    /\ up.pc = "put"
    /\ Len(up.fileArray) = 2
    /\ up.i = 2
    /\ uploadedFiles = <<>>

----------------------------------------------------------------------------
(* Claims about a sign-out during phase 2, checked under SpecSubmit *)

\* The positions in up'.attempts of the files whose upload starts in the
\* step.
StartedInStep == (Len(up.attempts) + 1)..Len(up'.attempts)

\* Every file whose upload starts while nobody is signed in gets the
\* sign-in error entry, and no put is issued for it.
StartedWithoutUserFail ==
    (currentUser = NoUser /\ StartedInStep # {}) =>
       /\ up'.putCalls = up.putCalls
       /\ \A k \in StartedInStep :
             LET i == up'.attempts[k]
             IN up'.results[i] = [error |-> "Must be signed in to upload files",
                                  name  |-> up'.fileArray[i].name]

\* A sign-out changes nothing of the batch or of the workflow, and the
\* workflow leaves phase 2 only with one entry for every file of the batch,
\* never by an error.
BatchRunsToItsEnd ==
    /\ (currentUser # NoUser /\ currentUser' = NoUser) => UNCHANGED <<up, sub>>
    /\ sub.pc = "uploading" =>
          /\ sub'.pc \in {"uploading", "patching", "done"}
          /\ sub'.pc # "uploading" =>
                up'.pc = "done" /\ Len(up'.results) = Len(up'.fileArray)

\* After the batch the record is patched with the URLs of the uploads that
\* succeeded, in order; without any, no patch is issued.
PatchAfterBatch ==
    (sub.pc \in {"notifying", "uploading"} /\ sub'.pc \in {"patching", "done"}) =>
       IF succeededUrls(up'.results) # <<>>
       THEN sub'.pc = "patching" /\ sub'.imageUrls = succeededUrls(up'.results)
                                 /\ sub'.patches = sub.patches + 1
       ELSE sub'.pc = "done" /\ sub'.patches = sub.patches

\* No record of the store is removed.
RecordsKept ==
    /\ Len(memories') >= Len(memories)
    /\ \A m \in 1..Len(memories) :
          [memories'[m] EXCEPT !.images = <<>>] = [memories[m] EXCEPT !.images = <<>>]

\* An upload succeeds in the step.
UploadSucceeds == Len(succeededUrls(up'.results)) > Len(succeededUrls(up.results))

\* C30 as stated: after a sign-out in phase 2 the files not yet started get
\* error entries without a put, the batch runs to its end, the record is
\* patched with the URLs of the uploads that succeeded, all of which
\* succeeded before the sign-out (no upload succeeds while nobody is signed
\* in), and the record is never removed.
C30_OnlyEarlierUploadsArePatched ==
    [][ /\ StartedWithoutUserFail
        /\ BatchRunsToItsEnd
        /\ PatchAfterBatch
        /\ UploadSucceeds => currentUser # NoUser
        /\ RecordsKept
      ]_vars

\* C30 amended: after a sign-out in phase 2 the files not yet started get
\* error entries without a put, the batch runs to its end, the record is
\* patched with the URLs of all uploads that succeeded, the upload in flight
\* at the sign-out included when it completes afterwards (its put was
\* issued while the user was signed in), and the record is never removed.
C30_SignOutDuringPhase2 ==
    [][ /\ StartedWithoutUserFail
        /\ BatchRunsToItsEnd
        /\ PatchAfterBatch
        /\ UploadSucceeds =>
              /\ up.pc = "url"
              /\ up.putCalls # <<>>
              /\ up.putCalls[Len(up.putCalls)] = up.i
        /\ RecordsKept
      ]_vars

\* C30 witness: the first of two files was uploaded, the user signed out
\* before the second was started, and the patch with the first URL is
\* issued.
C30_Witness ==
    /\ currentUser = NoUser
    /\ sub.pc = "patching"
    /\ Len(up.results) = 2
    /\ up.putCalls = <<1>>
    /\ "url" \in DOMAIN up.results[1]
    /\ up.results[2] = [error |-> "Must be signed in to upload files",
                        name  |-> up.fileArray[2].name]
    /\ sub.imageUrls = <<up.results[1].url>>
    /\ Len(memories) >= sub.memoryId

----------------------------------------------------------------------------
(* Claims about the operations called without a user, under SpecGuest *)

\* No document of the store changes in the step.
StoreUnchanged ==
    UNCHANGED <<memories, decades, notifications, reactionDocs, invites, comments>>

\* No put is issued to the blob store in the step.
NoPutIssued ==
    /\ compression'.putFile = compression.putFile
    /\ up'.putCalls = up.putCalls

\* A backend call of an operation that found a user when it was called is
\* awaited.
SignedInCallAwaited ==
    \/ sub.pc \in {"inserting", "incrementing", "notifying"} /\ sub.author # NoUser
    \/ sends[1].pc \in {"query", "add"} /\ sends[1].invite.invitedBy # NoUser
    \/ \E c \in 1..MaxCalls : InProgress(c) /\ calls[c].user # NoUser
    \/ commentCall.pc \in {"add", "update"} /\ commentCall.comment.authorId # NoUser

\* C28: a call of addMemory, addComment, sendInvite or uploadFile made while
\* nobody is signed in throws its sign-in error in the step of the call, a
\* call of addReaction returns undefined in that step; the step issues no
\* backend call and changes neither the document store nor the blob store;
\* and every step that changes the store or issues a put belongs to a call
\* that found a user.
C28_GuestCallsTouchNothing ==
    [][ /\ (currentUser = NoUser /\ sub.pc = "idle" /\ sub'.pc # "idle") =>
              /\ sub'.pc = "failed" /\ sub'.error = "auth" /\ sub'.insert = "nouser"
              /\ StoreUnchanged /\ NoPutIssued
        /\ (currentUser = NoUser /\ commentCall.pc = "idle" /\ commentCall'.pc # "idle") =>
              /\ commentCall'.pc = "failed"
              /\ commentCall'.error = "Must be signed in to comment"
              /\ StoreUnchanged /\ NoPutIssued
        /\ (currentUser = NoUser /\ sends[1].pc = "idle" /\ sends'[1].pc # "idle") =>
              /\ sends'[1].pc = "failed"
              /\ sends'[1].error = "Must be signed in to send invites"
              /\ StoreUnchanged /\ NoPutIssued
        /\ (currentUser = NoUser /\ compression.uploadArg = NoFile
                                  /\ compression'.uploadArg # NoFile) =>
              /\ compression'.pc = "failed"
              /\ compression'.error = "Must be signed in to upload files"
              /\ StoreUnchanged /\ NoPutIssued
        /\ \A c \in 1..MaxCalls :
              (calls[c].pc = "idle" /\ calls'[c].pc # "idle" /\ calls'[c].user = NoUser) =>
                 /\ calls'[c].pc = "done" /\ calls'[c].ret = "undefined"
                 /\ StoreUnchanged /\ NoPutIssued
        /\ ~ StoreUnchanged => SignedInCallAwaited
        /\ ~ NoPutIssued => currentUser # NoUser
      ]_vars

\* C28 witness: the user signed out while the image was compressed;
\* uploadFile, called afterwards, threw its sign-in error and nothing was
\* put.
C28_Witness ==
    /\ compression.compressed = "blob"
    /\ compression.pc = "failed"
    /\ compression.error = "Must be signed in to upload files"
    /\ compression.uploadArg # NoFile
    /\ compression.putFile = NoFile
    /\ currentUser = NoUser

----------------------------------------------------------------------------
(* Claims about the pending list, checked under SpecSubmit *)

\* The file is in the pending list.
StillPending(list, file) == \E k \in 1..Len(list) : list[k] = file

\* C20: in every step in which the upload of a file of the submission fails
\* that file leaves the pending list, and in every step in which the patch
\* of the record succeeds the pending list becomes empty.
C20_PendingListLifecycle ==
    [][ /\ (sub.pc = "uploading" /\ Len(up'.results) > Len(up.results)
               /\ IsErrorEntry(up'.results[Len(up.results) + 1]))
            => ~ StillPending(uploadedFiles', up.fileArray[Len(up.results) + 1])
        /\ (sub.pc = "patching" /\ sub'.pc = "done") => uploadedFiles' = <<>>
      ]_vars

====
